---- MODULE Spec2Model ----
(***************************************************************************)
(* A model of tasky-ai: the User Resolver (api_server/database.py) and the *)
(* Task Store tools of the agent (tasky_agent/tools/*.py).                 *)
(*                                                                         *)
(* The relational store (Supabase/PostgREST) is an external service: it is *)
(* modelled as two tables, `users` and `tasks`, that answer one call at a  *)
(* time; a call that raises has no effect on the tables.                   *)
(***************************************************************************)
EXTENDS Integers, Sequences, FiniteSets, TLC

VARIABLES
    users,      \* the users table: a set of rows [id, phone_number, username]
    nextUid,    \* the next identifier the store generates for a users row
    pc,         \* per request: where get_user_id_by_phone stands
    arg,        \* per request: its arguments [phone_number, username]
    ret,        \* per request: what the call returned or raised
    tasks,      \* the tasks table: a set of rows
    nextId,     \* the next identifier the store generates for a tasks row
    clock,      \* datetime.now(timezone.utc), advanced by every tool call
    made,       \* history: task id -> the caller and the draft it was created from
    last        \* the observed tool call: its operation, caller, input, result, store calls

userVars == <<users, nextUid, pc, arg, ret>>
taskVars == <<tasks, nextId, clock, made, last>>
vars == <<users, nextUid, pc, arg, ret, tasks, nextId, clock, made, last>>

(***************************************************************************)
(* Bounds of the model.                                                    *)
(***************************************************************************)
MaxProcs == 2       \* concurrent get_user_id_by_phone requests
MaxTasks == 2       \* rows the store holds before the observed tool call
MaxBatch == 2       \* items in the list handed to one tool call
MaxCalls == 3       \* update_tasks calls made one after another
MaxUsers == 2  \* rows of the users table when the daily summary runs

Procs == 1..MaxProcs
Phones == {"+15550001", "+15550002"}
Usernames == {"Ann", "Bob"}
Users == {"u1", "u2"}

Max(S) == CHOOSE x \in S : \A y \in S : y <= x
Min(S) == CHOOSE x \in S : \A y \in S : x <= y

(***************************************************************************)
(* Values handed to the tools.  A title is a sequence of characters; the   *)
(* other strings are TLA+ strings drawn from the small universes below.    *)
(* A draft, an update entry or a filter map is a Python dict: a function   *)
(* whose domain is the set of keys it carries.                             *)
(***************************************************************************)
None == "None"                                  \* Python's None / SQL NULL in a string column
NoTime == 0                                     \* NULL in a timestamp column stamped by the clock

Rep(c, n) == [i \in 1..n |-> c]
Has(d, k) == k \in DOMAIN d
Get(d, k, default) == IF k \in DOMAIN d THEN d[k] ELSE default

\* the index of the first character from i on that is no whitespace
RECURSIVE FirstSolid(_, _)
FirstSolid(v, i) == IF i > Len(v) \/ v[i] # " " THEN i ELSE FirstSolid(v, i + 1)

\* the index of the last character up to i that is no whitespace
RECURSIVE LastSolid(_, _)
LastSolid(v, i) == IF i < 1 \/ v[i] # " " THEN i ELSE LastSolid(v, i - 1)

\* str.strip(): drop the leading and the trailing whitespace
strip(v) == SubSeq(v, FirstSolid(v, 1), LastSolid(v, Len(v)))

MaxTitleLen == 255

Statuses == {"pending", "in_progress", "completed", "archived"}
Priorities == {1, 2, 3}

\* only the empty string is refused: a title of blanks passes
title_blank_passes(v) ==
    IF v = <<>> THEN [err |-> "Title cannot be empty", v |-> v]
    ELSE IF Len(strip(v)) > MaxTitleLen THEN [err |-> "Title cannot exceed 255 characters", v |-> v]
    ELSE [err |-> "", v |-> strip(v)]

\* TaskInput.title_must_not_be_empty: the error it raises ("" when none) and
\* the value it returns
title_must_not_be_empty(v) ==
    IF v = <<>> \/ strip(v) = <<>> THEN [err |-> "Title cannot be empty", v |-> v]
    ELSE IF Len(strip(v)) > MaxTitleLen THEN [err |-> "Title cannot exceed 255 characters", v |-> v]
    ELSE [err |-> "", v |-> strip(v)]

\* TaskInput.status_must_be_valid: `if v and v not in [...]`
status_must_be_valid(v) == ~(v # "" /\ v # None /\ v \notin Statuses)

\* TaskInput.priority_must_be_valid
priority_must_be_valid(v) == v \in Priorities

\* TaskInput.duration_must_be_positive
duration_must_be_positive(v) == ~(v < 0)

(***************************************************************************)
(* Dates.  datetime.strptime and datetime.isoformat are library functions: *)
(* they are given by their values on the date strings of the model.        *)
(***************************************************************************)
ValueError == [date |-> "ValueError", time |-> "ValueError"]
NoDate == [date |-> "None", time |-> "None"]        \* None where a datetime may stand
DateTime(d, t) == [date |-> d, time |-> t]

DateOnlyStrings == {"2025-07-15", "2025-07-16"}
DateTimeStrings == {"2025-07-15 00:00:00", "2025-07-15 09:30:00"}
BadDateStrings == {"15/07/2025", "2025-07-15T09:30:00", "next friday"}

\* ' ' in date_str
HasSpace(s) == s \in DateTimeStrings \cup {"next friday"}

\* datetime.strptime(s, '%Y-%m-%d')
strptime_date(s) ==
    CASE s = "2025-07-15" -> DateTime("2025-07-15", "00:00:00")
      [] s = "2025-07-16" -> DateTime("2025-07-16", "00:00:00")
      [] OTHER -> ValueError

\* datetime.strptime(s, '%Y-%m-%d %H:%M:%S')
strptime_datetime(s) ==
    CASE s = "2025-07-15 00:00:00" -> DateTime("2025-07-15", "00:00:00")
      [] s = "2025-07-15 09:30:00" -> DateTime("2025-07-15", "09:30:00")
      [] OTHER -> ValueError

\* the time of day is dropped: only the date is kept
isoformat_date_only(dt) ==
    CASE dt.date = "2025-07-15" -> "2025-07-15T00:00:00"
      [] dt.date = "2025-07-16" -> "2025-07-16T00:00:00"

\* datetime.isoformat()
isoformat(dt) ==
    CASE dt = DateTime("2025-07-15", "00:00:00") -> "2025-07-15T00:00:00"
      [] dt = DateTime("2025-07-15", "09:30:00") -> "2025-07-15T09:30:00"
      [] dt = DateTime("2025-07-16", "00:00:00") -> "2025-07-16T00:00:00"

\* tasky_agent/utils.py, parse_date: ValueError for an empty string, else the
\* format is chosen by the presence of a space
parse_date(s) ==
    IF s = "" \/ s = None THEN ValueError
    ELSE IF HasSpace(s) THEN strptime_datetime(s)
    ELSE strptime_date(s)

(***************************************************************************)
(* Task identifiers.  The store generates the UUIDs 1, 2, 3, ...; 0 stands *)
(* for the empty string and -1 for a string that is no UUID.               *)
(***************************************************************************)
EmptyId == 0
JunkId == 0 - 1

\* tasky_agent/utils.py, validate_uuid
validate_uuid(id) == id # EmptyId /\ id # JunkId

(***************************************************************************)
(* Task Store: tasky_agent/tools/create_tasks.py.                          *)
(* A tool call is one action: the tool is a synchronous function.  Its     *)
(* input is the list handed to it, the outcome `io` of the store call made *)
(* for each item ("ok", "raise": the call raised, "nodata": the store      *)
(* answered with no row) and whether connect_db() succeeded.               *)
(***************************************************************************)
Truthy(s) == s # None /\ s # ""

\* TaskInput(**task_data): the first validation error ("" when none)
TaskInputError(d) ==
    IF ~Has(d, "title") THEN "Field required"
    ELSE IF title_must_not_be_empty(d.title).err # "" THEN title_must_not_be_empty(d.title).err
    ELSE IF Has(d, "status") /\ ~status_must_be_valid(d.status)
         THEN "Status must be one of: pending, in_progress, completed, archived"
    ELSE IF Has(d, "priority") /\ ~priority_must_be_valid(d.priority)
         THEN "Priority must be 1 (high), 2 (medium), or 3 (low)"
    ELSE IF Has(d, "duration_mins") /\ ~duration_must_be_positive(d.duration_mins)
         THEN "Duration must be non-negative"
    ELSE ""

\* TaskInput(**task_data): the validated model, with the defaults of the class
TaskInput(d) ==
    [title |-> IF Has(d, "title") THEN title_must_not_be_empty(d.title).v ELSE <<>>,
     description |-> Get(d, "description", None),
     status |-> Get(d, "status", "pending"),
     due_dt |-> Get(d, "due_dt", None),
     working_dt |-> Get(d, "working_dt", None),
     duration_mins |-> Get(d, "duration_mins", 0),
     priority |-> Get(d, "priority", 2),
     tags |-> Get(d, "tags", <<>>)]

\* only the first draft of the list is validated
FirstDraftOnly(batch) ==
    IF batch # <<>> /\ TaskInputError(batch[1]) # "" THEN 0 ELSE 0 - 1

\* lines 84-92: the index (from 0) of the first draft TaskInput rejects, -1 when none
FirstInvalidDraft(batch) ==
    LET bad == {i \in 1..Len(batch) : TaskInputError(batch[i]) # ""} IN
    IF bad = {} THEN 0 - 1 ELSE Min(bad) - 1

\* lines 124-135: the row handed to insert
NewTaskRow(id, user_id, m, due, working, now) ==
    [id |-> id,
     user_id |-> user_id,
     title |-> m.title,
     description |-> IF Truthy(m.description) THEN m.description ELSE None,
     status |-> m.status,
     due_dt |-> IF due = NoDate THEN None ELSE isoformat(due),
     working_dt |-> IF working = NoDate THEN None ELSE isoformat(working),
     duration_mins |-> m.duration_mins,
     priority |-> m.priority,
     tags |-> m.tags,
     created_at |-> now,
     updated_at |-> NoTime]

ItemError(idx, m, text) == [task_index |-> idx, title |-> m.title, error |-> text]

\* the due date is not parsed: a draft with any due_dt is inserted without it
CreateStepNoDueCheck(acc, idx, d, io, user_id, now) ==
    LET m == TaskInput(d)
        row == NewTaskRow(acc.nextId, user_id, m, NoDate, NoDate, now)
    IN  [acc EXCEPT !.tasks = @ \cup {row},
                    !.nextId = @ + 1,
                    !.created = @ + 1,
                    !.calls = Append(@, [call |-> "insert", item |-> idx, id |-> row.id, io |-> "ok"])]

\* lines 97-155: one turn of the loop over the validated drafts
CreateStep(acc, idx, d, io, user_id, now) ==
    LET m == TaskInput(d)
        due == IF Truthy(m.due_dt) THEN parse_date(m.due_dt) ELSE NoDate
        working == IF Truthy(m.working_dt) THEN parse_date(m.working_dt) ELSE NoDate
    IN  IF due = ValueError
        THEN [acc EXCEPT !.errors = Append(@, ItemError(idx, m, "Invalid deadline date format"))]
        ELSE IF working = ValueError
        THEN [acc EXCEPT !.errors = Append(@, ItemError(idx, m, "Invalid working date format"))]
        ELSE IF io = "raise"
        THEN [acc EXCEPT !.errors = Append(@, ItemError(idx, m, "Database error")),
                         !.calls = Append(@, [call |-> "insert", item |-> idx, id |-> 0, io |-> io])]
        ELSE IF io = "nodata"
        THEN [acc EXCEPT !.errors = Append(@, ItemError(idx, m, "Failed to insert task into database")),
                         !.calls = Append(@, [call |-> "insert", item |-> idx, id |-> 0, io |-> io])]
        ELSE LET row == NewTaskRow(acc.nextId, user_id, m, due, working, now) IN
             [acc EXCEPT !.tasks = @ \cup {row},
                         !.nextId = @ + 1,
                         !.created = @ + 1,
                         !.calls = Append(@, [call |-> "insert", item |-> idx, id |-> row.id, io |-> io])]

\* the loop ends at the first insert that raises
RECURSIVE CreateLoopEndsAtRaise(_, _, _, _, _, _)
CreateLoopEndsAtRaise(acc, i, batch, io, user_id, now) ==
    IF i > Len(batch) \/ (i > 1 /\ io[i - 1] = "raise") THEN acc
    ELSE CreateLoopEndsAtRaise(CreateStep(acc, i - 1, batch[i], io[i], user_id, now),
                               i + 1, batch, io, user_id, now)

RECURSIVE CreateLoop(_, _, _, _, _, _)
CreateLoop(acc, i, batch, io, user_id, now) ==
    IF i > Len(batch) THEN acc
    ELSE CreateLoop(CreateStep(acc, i - 1, batch[i], io[i], user_id, now),
                    i + 1, batch, io, user_id, now)

TopError(text) == [status |-> "error", message |-> text]

\* every run is reported as a success
CreateResultAlwaysSuccess(created, errors) ==
    IF errors = <<>>
    THEN [status |-> "success", message |-> "Successfully created task(s).", task_count |-> created]
    ELSE [status |-> "success", message |-> "Successfully created task(s).", task_count |-> created,
          errors |-> errors]

\* lines 157-165: the result of a run that reached the end of the loop
CreateResult(created, errors) ==
    LET status == IF created > 0 THEN "success" ELSE "error"
        message == IF created > 0 THEN "Successfully created task(s)."
                   ELSE "No tasks created due to errors."
    IN  IF errors = <<>>
        THEN [status |-> status, message |-> message, task_count |-> created]
        ELSE [status |-> status, message |-> message, task_count |-> created, errors |-> errors]

\* create_tasks(tasks, tool_context): the store it leaves, its result, its store calls
create_tasks(store, next, now, user_id, batch, io, conn) ==
    LET same == [tasks |-> store, nextId |-> next, calls |-> <<>>] IN
    IF batch = <<>> THEN same @@ [res |-> TopError("No tasks provided to create")]
    ELSE IF ~conn THEN same @@ [res |-> TopError("Database connection failed")]
    ELSE IF user_id = "" THEN same @@ [res |-> TopError("User ID not found in context")]
    ELSE IF FirstInvalidDraft(batch) >= 0
         THEN same @@ [res |-> [status |-> "error", message |-> "Validation error for task",
                                task |-> FirstInvalidDraft(batch)]]
    ELSE LET acc == CreateLoop([tasks |-> store, nextId |-> next, errors |-> <<>>,
                                created |-> 0, calls |-> <<>>],
                               1, batch, io, user_id, now)
         IN  [tasks |-> acc.tasks, nextId |-> acc.nextId, calls |-> acc.calls,
              res |-> CreateResult(acc.created, acc.errors)]

(***************************************************************************)
(* User Resolver: api_server/database.py, get_user_id_by_phone.            *)
(***************************************************************************)
\* What a call gave back: the identifier and the line that returned it, or HTTP 500.
NoRet == [kind |-> "none", id |-> 0, via |-> "none"]
Raised == [kind |-> "raise", id |-> 0, via |-> "none"]
Returned(uid, line) == [kind |-> "id", id |-> uid, via |-> line]

\* supabase.table('users').select(...).eq('phone_number', phone).execute().data
UsersByPhone(phone) == {u \in users : u.phone_number = phone}

\* response.data[0]['id'] of a non-empty answer
FirstId(rows) == Min({u.id : u \in rows})

\* A uniqueness conflict is never reported: every insert adds a row.
InsertConflictsNever(phone) == FALSE

\* The insert of line 44 is refused by the store's uniqueness constraint on
\* phone_number ("duplicate key value violates unique constraint", line 48).
InsertConflicts(phone) == UsersByPhone(phone) # {}

Finish(p, r) ==
    /\ pc' = [pc EXCEPT ![p] = "done"]
    /\ ret' = [ret EXCEPT ![p] = r]

\* A webhook delivery calls get_user_id_by_phone(phone_number, username);
\* a connect_db() that raises (line 27) ends the call as a store call that
\* raises does (StoreCallRaises).
Resolve(p) ==
    /\ pc[p] = "idle"
    /\ \E ph \in Phones, nm \in Usernames :
         arg' = [arg EXCEPT ![p] = [phone_number |-> ph, username |-> nm]]
    /\ pc' = [pc EXCEPT ![p] = "select1"]
    /\ UNCHANGED <<users, nextUid, ret, taskVars>>

\* line 29: a select whose answer is overwritten by the next line
Select1(p) ==
    /\ pc[p] = "select1"
    /\ pc' = [pc EXCEPT ![p] = "select2"]
    /\ UNCHANGED <<users, nextUid, arg, ret, taskVars>>

\* lines 30-41: select by phone; a row found is returned
Select2(p) ==
    /\ pc[p] = "select2"
    /\ LET rows == UsersByPhone(arg[p].phone_number) IN
         IF rows # {}
         THEN Finish(p, Returned(FirstId(rows), "select"))
         ELSE /\ pc' = [pc EXCEPT ![p] = "insert"]
              /\ ret' = ret
    /\ UNCHANGED <<users, nextUid, arg, taskVars>>

\* lines 42-48: insert; on the uniqueness conflict go on to the re-select
Insert(p) ==
    /\ pc[p] = "insert"
    /\ IF InsertConflicts(arg[p].phone_number)
       THEN /\ pc' = [pc EXCEPT ![p] = "reselect"]
            /\ UNCHANGED <<users, nextUid, ret>>
       ELSE /\ users' = users \cup {[id |-> nextUid,
                                     phone_number |-> arg[p].phone_number,
                                     username |-> arg[p].username]}
            /\ nextUid' = nextUid + 1
            /\ Finish(p, Returned(nextUid, "insert"))
    /\ UNCHANGED <<arg, taskVars>>

\* lines 49-67: after the conflict, select again and return the row now there
Reselect(p) ==
    /\ pc[p] = "reselect"
    /\ LET rows == UsersByPhone(arg[p].phone_number) IN
         IF rows # {}
         THEN Finish(p, Returned(FirstId(rows), "reselect"))
         ELSE Finish(p, Raised)
    /\ UNCHANGED <<users, nextUid, arg, taskVars>>

\* lines 68-80: any store call may raise (transport error, other APIError);
\* the call that raised changed nothing and the handler raises HTTP 500
StoreCallRaises(p) ==
    /\ pc[p] \in {"select1", "select2", "insert", "reselect"}
    /\ Finish(p, Raised)
    /\ UNCHANGED <<users, nextUid, arg, taskVars>>

IdleTasks ==
    /\ tasks = {}
    /\ nextId = 1
    /\ clock = 1
    /\ made = <<>>
    /\ last = [op |-> "none"]

IdleUsers ==
    /\ users = {}
    /\ nextUid = 1
    /\ pc = [p \in Procs |-> "idle"]
    /\ arg = [p \in Procs |-> [phone_number |-> "", username |-> ""]]
    /\ ret = [p \in Procs |-> NoRet]

InitUsers == IdleUsers /\ IdleTasks

NextUsers ==
    \E p \in Procs :
        \/ Resolve(p)
        \/ Select1(p)
        \/ Select2(p)
        \/ Insert(p)
        \/ Reselect(p)
        \/ StoreCallRaises(p)

SpecUsers == InitUsers /\ [][NextUsers]_vars

(***************************************************************************)
(* Task Store: tasky_agent/tools/get_tasks.py.                             *)
(* A query is the sequence of predicates handed to the store.  The values  *)
(* of a filter map are of the types GetTaskInput declares.                 *)
(***************************************************************************)
\* the fields of GetTaskInput, in the order model_dump() yields them
FilterFields == <<"working_dt", "due_dt", "status", "priority", "tags">>

SeqToSet(q) == {q[i] : i \in 1..Len(q)}

\* the keys of a dict among the listed ones, in the listed order
KeysIn(filters, order) ==
    LET Present(k) == k \in DOMAIN filters IN SelectSeq(order, Present)

\* every key of the map is kept, the ones GetTaskInput does not declare too
AllKeys(filters) == KeysIn(filters, FilterFields \o <<"title", "user_id">>)

\* GetTaskInput(**filters).model_dump(), less the None values: the keys that
\* are fields of the model; a key that is none is dropped without an error
ValidatedKeys(filters) == KeysIn(filters, FilterFields)

Pred(col, op, val) == [col |-> col, op |-> op, val |-> val]

\* no predicate on the owner
NoOwnerQuery(user_id) == <<>>

\* line 60: supabase.table("tasks").select("*").eq("user_id", user_id)
OwnerQuery(user_id) == <<Pred("user_id", "eq", user_id)>>

\* lines 63-66: one contains predicate per tag
TagPreds(tagsv) == [i \in 1..Len(tagsv) |-> Pred("tags", "contains", tagsv[i])]

\* lines 62-78: the predicates of the validated filters; err names the date
\* key whose value parse_date refused ("" when none)
RECURSIVE FilterQuery(_, _, _, _)
FilterQuery(q, keys, filters, i) ==
    IF i > Len(keys) THEN [err |-> "", preds |-> q]
    ELSE LET key == keys[i] IN
         IF key = "tags"
         THEN FilterQuery(q \o TagPreds(filters[key]), keys, filters, i + 1)
         ELSE IF key \in {"working_dt", "due_dt"}
              THEN IF parse_date(filters[key]) = ValueError
                   THEN [err |-> key, preds |-> q]
                   ELSE FilterQuery(Append(q, Pred(key, "eq", isoformat(parse_date(filters[key])))),
                                    keys, filters, i + 1)
         ELSE FilterQuery(Append(q, Pred(key, "eq", filters[key])), keys, filters, i + 1)

\* the store's test of one predicate on one row
Matches(row, p) ==
    IF p.op = "contains"
    THEN \E k \in 1..Len(row.tags) : row.tags[k] = p.val
    ELSE row[p.col] = p.val

\* query.execute().data: the rows that satisfy every predicate
Select(store, preds) == {t \in store : \A k \in 1..Len(preds) : Matches(t, preds[k])}

\* lines 89-104: one formatted task
FormatTask(t) ==
    [task_id |-> t.id, title |-> t.title, description |-> t.description,
     status |-> t.status, created_at |-> t.created_at, updated_at |-> t.updated_at,
     due_dt |-> t.due_dt, working_dt |-> t.working_dt,
     duration_mins |-> t.duration_mins, priority |-> t.priority, tags |-> t.tags]

\* the rows of an answer as a list, in the order of their identifiers
RECURSIVE RowList(_)
RowList(rows) ==
    IF rows = {} THEN <<>>
    ELSE LET t == CHOOSE t \in rows : \A o \in rows : t.id <= o.id IN
         <<t>> \o RowList(rows \ {t})

\* get_tasks(filters, tool_context): its result and its store calls
get_tasks(store, user_id, filters, io, conn) ==
    IF ~conn THEN [calls |-> <<>>, res |-> TopError("Database connection failed")]
    ELSE IF user_id = "" THEN [calls |-> <<>>, res |-> TopError("User ID not found in context")]
    ELSE LET q == FilterQuery(OwnerQuery(user_id), ValidatedKeys(filters), filters, 1) IN
         IF q.err # ""
         THEN [calls |-> <<>>,
               res |-> [status |-> "error", message |-> "Invalid date format", key |-> q.err]]
         ELSE IF io = "raise"
         THEN [calls |-> <<[call |-> "select", preds |-> q.preds, io |-> io]>>,
               res |-> TopError("Database query error")]
         ELSE LET rows == RowList(Select(store, q.preds))
                  formatted == [i \in 1..Len(rows) |-> FormatTask(rows[i])]
              IN  [calls |-> <<[call |-> "select", preds |-> q.preds, io |-> io]>>,
                   res |-> [status |-> "success", tasks |-> formatted, count |-> Len(formatted)]]

(***************************************************************************)
(* Task Store: tasky_agent/tools/update_tasks.py.                          *)
(***************************************************************************)
\* the owner is one more field an entry may set
UpdateFieldsWithOwner == <<"title", "description", "status", "due_dt", "working_dt",
                           "duration_mins", "priority", "tags", "user_id">>

\* TaskUpdateInput.model_dump(), less task_id, in the order of the fields
UpdateFields == <<"title", "description", "status", "due_dt", "working_dt",
                  "duration_mins", "priority", "tags">>

\* TaskUpdateInput(**task_data): task_id is the one required field; a key
\* that is no field of the model is dropped
TaskUpdateInputError(e) == IF Has(e, "task_id") THEN "" ELSE "Field required"

\* the task_id is validated as a UUID in the first entry of the list only
FirstEntryOnly(entries) ==
    LET bad == {i \in 1..Len(entries) :
                   \/ TaskUpdateInputError(entries[i]) # ""
                   \/ i = 1 /\ ~validate_uuid(entries[i].task_id)} IN
    IF bad = {} THEN 0 - 1 ELSE Min(bad) - 1

\* lines 61-77: the index (from 0) of the first entry that TaskUpdateInput
\* rejects or whose task_id is no UUID, -1 when none
FirstInvalidEntry(entries) ==
    LET bad == {i \in 1..Len(entries) :
                   \/ TaskUpdateInputError(entries[i]) # ""
                   \/ ~validate_uuid(entries[i].task_id)} IN
    IF bad = {} THEN 0 - 1 ELSE Min(bad) - 1

\* the row is looked for by its id alone, whoever owns it
TaskQueryAnyOwner(task_id, user_id) == <<Pred("id", "eq", task_id)>>

\* .eq("id", task_id).eq("user_id", user_id)
TaskQuery(task_id, user_id) == <<Pred("id", "eq", task_id), Pred("user_id", "eq", user_id)>>

\* an empty answer of the lookup is taken for a row found
NoDataNever(rows) == FALSE

\* if not response.data
NoData(rows) == rows = {}

\* the f-strings of the reasons, less the id and the value they interpolate
Failed(task_id, text) == [task_id |-> task_id, reason |-> text]

\* lines 106-132: the fields of one entry, in order; an invalid value adds a
\* failed entry and is left out of update_data, the next field is looked at
RECURSIVE UpdateData(_, _, _, _)
UpdateData(acc, task_id, e, k) ==
    IF k > Len(UpdateFields) THEN acc
    ELSE LET key == UpdateFields[k] IN
         IF ~Has(e, key) THEN UpdateData(acc, task_id, e, k + 1)
         ELSE IF key \in {"due_dt", "working_dt"}
              THEN IF parse_date(e[key]) = ValueError
                   THEN UpdateData([acc EXCEPT !.failed = Append(@, Failed(task_id,
                                       IF key = "due_dt" THEN "Invalid date format for due_dt"
                                       ELSE "Invalid date format for working_dt"))],
                                   task_id, e, k + 1)
                   ELSE UpdateData([acc EXCEPT !.data = @ @@ (key :> isoformat(parse_date(e[key])))],
                                   task_id, e, k + 1)
         ELSE IF key = "status" /\ e[key] \notin Statuses
              THEN UpdateData([acc EXCEPT !.failed = Append(@, Failed(task_id, "Invalid status"))],
                              task_id, e, k + 1)
         ELSE IF key = "priority" /\ e[key] \notin Priorities
              THEN UpdateData([acc EXCEPT !.failed = Append(@, Failed(task_id, "Invalid priority"))],
                              task_id, e, k + 1)
         ELSE UpdateData([acc EXCEPT !.data = @ @@ (key :> e[key])], task_id, e, k + 1)

\* .update(update_data) on one row; line 141 adds updated_at
UpdatedRow(t, data, now) ==
    LET New(key) == IF key \in DOMAIN data THEN data[key] ELSE t[key] IN
    [id |-> New("id"),
     user_id |-> New("user_id"),
     title |-> New("title"),
     description |-> New("description"),
     status |-> New("status"),
     due_dt |-> New("due_dt"),
     working_dt |-> New("working_dt"),
     duration_mins |-> New("duration_mins"),
     priority |-> New("priority"),
     tags |-> New("tags"),
     created_at |-> New("created_at"),
     updated_at |-> now]

\* lines 84-164: one turn of the loop over the validated entries
UpdateStep(acc, idx, e, io, user_id, now) ==
    LET task_id == e.task_id
        select == [call |-> "select", item |-> idx, id |-> task_id, io |-> io]
        update == [call |-> "update", item |-> idx, id |-> task_id, io |-> io]
    IN  IF io = "check_raises"
        THEN [acc EXCEPT !.failed = Append(@, Failed(task_id, "Database error checking task existence")),
                         !.calls = Append(@, select)]
        ELSE IF NoData(Select(acc.tasks, TaskQuery(task_id, user_id)))
        THEN [acc EXCEPT !.failed = Append(@, Failed(task_id, "Task with ID not found or not owned by user")),
                         !.calls = Append(@, select)]
        ELSE LET f == UpdateData([data |-> <<>>, failed |-> acc.failed], task_id, e, 1) IN
             IF DOMAIN f.data = {}
             THEN [acc EXCEPT !.failed = Append(f.failed, Failed(task_id, "No fields provided for update")),
                              !.calls = Append(@, select)]
             ELSE IF io = "raises"
             THEN [acc EXCEPT !.failed = Append(f.failed, Failed(task_id, "Database update error")),
                              !.calls = @ \o <<select, update>>]
             ELSE LET rows == IF io = "nodata" THEN {}
                              ELSE Select(acc.tasks, TaskQuery(task_id, user_id))
                  IN  IF rows = {}
                      THEN [acc EXCEPT !.failed = Append(f.failed, Failed(task_id, "Update operation returned no data")),
                                       !.calls = @ \o <<select, update>>]
                      ELSE [acc EXCEPT !.tasks = (@ \ rows) \cup {UpdatedRow(t, f.data, now) : t \in rows},
                                       !.failed = f.failed,
                                       !.ok = Append(@, [task_id |-> task_id,
                                                         message |-> "Task updated successfully"]),
                                       !.calls = @ \o <<select, update>>]

RECURSIVE UpdateLoop(_, _, _, _, _, _)
UpdateLoop(acc, i, entries, io, user_id, now) ==
    IF i > Len(entries) THEN acc
    ELSE UpdateLoop(UpdateStep(acc, i - 1, entries[i], io[i], user_id, now),
                    i + 1, entries, io, user_id, now)

\* update_tasks(tasks, tool_context): the store it leaves, its result, its store calls
update_tasks(store, now, user_id, entries, io, conn) ==
    LET same == [tasks |-> store, calls |-> <<>>] IN
    IF entries = <<>> THEN same @@ [res |-> TopError("No tasks provided to update")]
    ELSE IF ~conn THEN same @@ [res |-> TopError("Database connection failed")]
    ELSE IF user_id = "" THEN same @@ [res |-> TopError("User ID not found in context")]
    ELSE IF FirstInvalidEntry(entries) >= 0
         THEN LET idx == FirstInvalidEntry(entries) IN
              same @@ [res |-> [status |-> "error",
                                message |-> IF TaskUpdateInputError(entries[idx + 1]) # ""
                                            THEN "Validation error for task"
                                            ELSE "Invalid UUID format for task_id in task",
                                task |-> idx]]
    ELSE LET acc == UpdateLoop([tasks |-> store, ok |-> <<>>, failed |-> <<>>, calls |-> <<>>],
                               1, entries, io, user_id, now)
         IN  [tasks |-> acc.tasks, calls |-> acc.calls,
              res |-> [status |-> "success", message |-> "Updated tasks",
                       results |-> [successful_updates |-> acc.ok,
                                    failed_updates |-> acc.failed]]]

(***************************************************************************)
(* Task Store: tasky_agent/tools/delete_tasks.py.                          *)
(***************************************************************************)
\* only the first id of the list is validated
FirstIdOnly(task_ids) ==
    IF task_ids # <<>> /\ ~validate_uuid(task_ids[1]) THEN 1 ELSE 0

\* lines 21-26: the position of the first id that is no UUID, 0 when none
FirstInvalidId(task_ids) ==
    LET bad == {i \in 1..Len(task_ids) : ~validate_uuid(task_ids[i])} IN
    IF bad = {} THEN 0 ELSE Min(bad)

\* lines 49-88: one turn of the loop over the ids
DeleteStep(acc, idx, task_id, io, user_id) ==
    LET select == [call |-> "select", item |-> idx, id |-> task_id, io |-> io]
        delete == [call |-> "delete", item |-> idx, id |-> task_id, io |-> io]
    IN  IF io = "check_raises"
        THEN [acc EXCEPT !.failed = Append(@, Failed(task_id, "Database error checking task existence")),
                         !.calls = Append(@, select)]
        ELSE IF NoData(Select(acc.tasks, TaskQuery(task_id, user_id)))
        THEN [acc EXCEPT !.failed = Append(@, Failed(task_id, "Task with ID not found or unauthorized")),
                         !.calls = Append(@, select)]
        ELSE IF io = "raises"
        THEN [acc EXCEPT !.failed = Append(@, Failed(task_id, "Database delete error")),
                         !.calls = @ \o <<select, delete>>]
        ELSE LET rows == IF io = "nodata" THEN {}
                         ELSE Select(acc.tasks, TaskQuery(task_id, user_id))
             IN  IF rows = {}
                 THEN [acc EXCEPT !.failed = Append(@, Failed(task_id, "Delete operation returned no data")),
                                  !.calls = @ \o <<select, delete>>]
                 ELSE [acc EXCEPT !.tasks = @ \ rows,
                                  !.ok = Append(@, task_id),
                                  !.calls = @ \o <<select, delete>>]

RECURSIVE DeleteLoop(_, _, _, _, _)
DeleteLoop(acc, i, task_ids, io, user_id) ==
    IF i > Len(task_ids) THEN acc
    ELSE DeleteLoop(DeleteStep(acc, i - 1, task_ids[i], io[i], user_id),
                    i + 1, task_ids, io, user_id)

\* delete_tasks(task_ids, tool_context): the store it leaves, its result, its store calls
delete_tasks(store, user_id, task_ids, io, conn) ==
    LET same == [tasks |-> store, calls |-> <<>>] IN
    IF task_ids = <<>> THEN same @@ [res |-> TopError("No task IDs provided to delete")]
    ELSE IF FirstInvalidId(task_ids) > 0
         THEN same @@ [res |-> [status |-> "error", message |-> "Invalid UUID format for task_id",
                                task_id |-> task_ids[FirstInvalidId(task_ids)]]]
    ELSE IF ~conn THEN same @@ [res |-> TopError("Database connection failed")]
    ELSE IF user_id = "" THEN same @@ [res |-> TopError("User ID not found in context")]
    ELSE LET acc == DeleteLoop([tasks |-> store, ok |-> <<>>, failed |-> <<>>, calls |-> <<>>],
                               1, task_ids, io, user_id)
         IN  [tasks |-> acc.tasks, calls |-> acc.calls,
              res |-> [status |-> IF acc.ok # <<>> THEN "success" ELSE "error",
                       message |-> "Deleted task(s)",
                       results |-> [successful_deletes |-> acc.ok,
                                    failed_deletes |-> acc.failed]]]

(***************************************************************************)
(* The tool calls as actions.  The store is first filled by plain          *)
(* create_tasks calls of either user (Seed); then one tool call with       *)
(* arbitrary input is made and recorded in `last`.                         *)
(***************************************************************************)
SeqsUpTo(S, n) == UNION {[1..k -> S] : k \in 0..n}

\* history: the rows a create_tasks call inserted, with caller and draft
Made(calls, user_id, batch) ==
    LET ins == {k \in 1..Len(calls) : calls[k].call = "insert" /\ calls[k].io = "ok"} IN
    [id \in {calls[k].id : k \in ins} |->
        LET k == CHOOSE k \in ins : calls[k].id = id IN
        [by |-> user_id, draft |-> batch[calls[k].item + 1]]]

\* who calls the tool and whether connect_db() succeeds:
\* tool_context._invocation_context.user_id may be empty
Envs ==
    {[user |-> u, conn |-> TRUE] : u \in Users \cup {""}} \cup {[user |-> "u1", conn |-> FALSE]}

Idle == last.op = "none"

Seed(Drafts) ==
    /\ Idle
    /\ Cardinality(tasks) < MaxTasks
    /\ \E u \in Users, d \in Drafts :
         LET r == create_tasks(tasks, nextId, clock, u, <<d>>, <<"ok">>, TRUE) IN
         /\ tasks' = r.tasks
         /\ nextId' = r.nextId
         /\ made' = made @@ Made(r.calls, u, <<d>>)
    /\ clock' = clock + 1
    /\ UNCHANGED <<last, userVars>>

Short == <<" ", "a", " ">>
PlainDraft == [title |-> <<"a">>]

\* the drafts of the observed create_tasks call, each with the outcome of its insert
CreateItems ==
    {[d |-> [title |-> t], io |-> "ok"] :
        t \in {Short, <<>>, <<" ", " ">>, Rep("a", MaxTitleLen + 1),
               <<" ">> \o Rep("a", MaxTitleLen) \o <<" ">>}}
    \cup {[d |-> [title |-> Short, due_dt |-> x], io |-> "ok"] :
             x \in {"2025-07-15", "15/07/2025"}}
    \cup {[d |-> [title |-> Short, working_dt |-> "next friday"], io |-> "ok"],
          [d |-> [title |-> Short, due_dt |-> "2025-07-15 09:30:00", working_dt |-> "2025-07-16"],
           io |-> "ok"],
          [d |-> [title |-> Short, status |-> ""], io |-> "ok"],
          [d |-> [title |-> Short, priority |-> 7], io |-> "ok"],
          [d |-> [description |-> "untitled"], io |-> "ok"],
          [d |-> PlainDraft, io |-> "raise"],
          [d |-> PlainDraft, io |-> "nodata"]}

ObsCreate ==
    /\ Idle
    /\ \E env \in Envs, items \in SeqsUpTo(CreateItems, MaxBatch) :
         LET batch == [i \in 1..Len(items) |-> items[i].d]
             io == [i \in 1..Len(items) |-> items[i].io]
             r == create_tasks(tasks, nextId, clock, env.user, batch, io, env.conn)
         IN  /\ tasks' = r.tasks
             /\ nextId' = r.nextId
             /\ made' = made @@ Made(r.calls, env.user, batch)
             /\ last' = [op |-> "create", user |-> env.user, conn |-> env.conn,
                         req |-> batch, io |-> io, res |-> r.res, calls |-> r.calls,
                         before |-> tasks]
    /\ clock' = clock + 1
    /\ UNCHANGED userVars

InitTasks == IdleUsers /\ IdleTasks

NextCreate == Seed({PlainDraft}) \/ ObsCreate

SpecCreate == InitTasks /\ [][NextCreate]_vars

\* the drafts the store is filled with before an observed get_tasks call
ReadSeedDrafts ==
    {PlainDraft,
     [title |-> <<"a">>, due_dt |-> "2025-07-15"],
     [title |-> <<"a">>, due_dt |-> "2025-07-16"],
     [title |-> <<"a">>, due_dt |-> "2025-07-15", priority |-> 1, tags |-> <<"home">>]}

\* the filter maps of the observed get_tasks call; "title" and "user_id" are
\* no fields of GetTaskInput
FilterMaps ==
    {<<>>}
    \cup {[due_dt |-> x] : x \in DateOnlyStrings \cup DateTimeStrings \cup {"15/07/2025", ""}}
    \cup {[working_dt |-> "2025-07-16"],
          [working_dt |-> "next friday", due_dt |-> "15/07/2025"],
          [status |-> "pending"], [status |-> "done"],
          [priority |-> 1, status |-> "pending", due_dt |-> "2025-07-15"],
          [tags |-> <<"home">>], [tags |-> <<"home", "urgent">>], [tags |-> <<>>],
          [title |-> <<"a">>], [user_id |-> "u2"],
          [user_id |-> "u1", due_dt |-> "2025-07-16"],
          [title |-> <<"b">>, due_dt |-> "15/07/2025"]}

ObsGet ==
    /\ Idle
    /\ \E env \in Envs, filters \in FilterMaps, io \in {"ok", "raise"} :
         LET r == get_tasks(tasks, env.user, filters, io, env.conn) IN
         last' = [op |-> "get", user |-> env.user, conn |-> env.conn,
                  req |-> filters, io |-> io, res |-> r.res, calls |-> r.calls,
                  before |-> tasks]
    /\ clock' = clock + 1
    /\ UNCHANGED <<tasks, nextId, made, userVars>>

NextRead == Seed(ReadSeedDrafts) \/ ObsGet

SpecRead == InitTasks /\ [][NextRead]_vars

\* an id no row of the store has
MissingId == MaxTasks + 1
UpdateIds == {1, 2, MissingId}
Changes ==
    { <<>>,
      [title |-> <<"b">>],
      [status |-> "bogus", title |-> <<"b">>],
      [due_dt |-> "next friday"],
      [status |-> "completed", priority |-> 1, due_dt |-> "2025-07-16"] }
WithId(id, c) == c @@ [task_id |-> id]

\* the entries of the observed update_tasks call, each with the outcome of its store calls
UpdateItems ==
    {[e |-> WithId(id, c), io |-> "ok"] : id \in UpdateIds, c \in Changes}
    \cup {[e |-> WithId(JunkId, [title |-> <<"b">>]), io |-> "ok"],
          [e |-> [title |-> <<"b">>], io |-> "ok"],
          [e |-> WithId(1, [user_id |-> "u2", title |-> <<"b">>]), io |-> "ok"]}
    \cup {[e |-> WithId(1, [title |-> <<"b">>]), io |-> x] : x \in {"check_raises", "raises", "nodata"}}

ObsUpdate ==
    /\ Idle
    /\ \E env \in Envs, items \in SeqsUpTo(UpdateItems, MaxBatch) :
         LET entries == [i \in 1..Len(items) |-> items[i].e]
             io == [i \in 1..Len(items) |-> items[i].io]
             r == update_tasks(tasks, clock, env.user, entries, io, env.conn)
         IN  /\ tasks' = r.tasks
             /\ last' = [op |-> "update", user |-> env.user, conn |-> env.conn,
                         req |-> entries, io |-> io, res |-> r.res, calls |-> r.calls,
                         before |-> tasks, now |-> clock]
    /\ clock' = clock + 1
    /\ UNCHANGED <<nextId, made, userVars>>

\* the ids of the observed delete_tasks call, each with the outcome of its store calls
DeleteItems ==
    {[id |-> id, io |-> "ok"] : id \in UpdateIds \cup {JunkId, EmptyId}}
    \cup {[id |-> 1, io |-> x] : x \in {"check_raises", "raises", "nodata"}}

ObsDelete ==
    /\ Idle
    /\ \E env \in Envs, items \in SeqsUpTo(DeleteItems, MaxBatch) :
         LET task_ids == [i \in 1..Len(items) |-> items[i].id]
             io == [i \in 1..Len(items) |-> items[i].io]
             r == delete_tasks(tasks, env.user, task_ids, io, env.conn)
         IN  /\ tasks' = r.tasks
             /\ last' = [op |-> "delete", user |-> env.user, conn |-> env.conn,
                         req |-> task_ids, io |-> io, res |-> r.res, calls |-> r.calls,
                         before |-> tasks, now |-> clock]
    /\ clock' = clock + 1
    /\ UNCHANGED <<nextId, made, userVars>>

NextMutate == Seed({PlainDraft}) \/ ObsUpdate \/ ObsDelete

SpecMutate == InitTasks /\ [][NextMutate]_vars

\* the entries of the update_tasks calls made one after another
SingleEntries ==
    {WithId(id, c) : id \in {1, 2},
                     c \in {[title |-> <<"b">>],
                            [status |-> "completed", priority |-> 1, due_dt |-> "2025-07-16"],
                            [status |-> "bogus", title |-> <<"c">>],
                            [user_id |-> "u2", title |-> <<"c">>]}}

\* the update_tasks calls made so far: the clock ticks once per call, nextId once per create
UpdateCalls == clock - nextId

\* one more update_tasks call of one entry, by either user
UpdateOnce ==
    /\ last.op \in {"none", "update"}
    /\ UpdateCalls < MaxCalls
    /\ \E u \in Users, e \in SingleEntries :
         LET r == update_tasks(tasks, clock, u, <<e>>, <<"ok">>, TRUE) IN
         /\ tasks' = r.tasks
         /\ last' = [op |-> "update", user |-> u, conn |-> TRUE,
                     req |-> <<e>>, io |-> <<"ok">>, res |-> r.res, calls |-> r.calls,
                     before |-> tasks, now |-> clock]
    /\ clock' = clock + 1
    /\ UNCHANGED <<nextId, made, userVars>>

NextUpdates == Seed({PlainDraft}) \/ UpdateOnce

SpecUpdates == InitTasks /\ [][NextUpdates]_vars

\* the three writing tools side by side
NextBatch == Seed({PlainDraft}) \/ ObsCreate \/ ObsUpdate \/ ObsDelete

SpecBatch == InitTasks /\ [][NextBatch]_vars

(***************************************************************************)
(* Webhook: api_server/utils.py, verify_whatsapp_signature.                *)
(* A header value is the number of leading "sha256=" tags and the text     *)
(* after them; a text is a sequence of words.  HMAC-SHA256 is taken to be  *)
(* free of collisions: the digest of a body under a key is the text        *)
(* <<"hmac", key, body>>.                                                  *)
(***************************************************************************)
\* request.headers.get("x-hub-signature-256") of a request without the header
NoHeader == [present |-> FALSE, tags |-> 0, rest |-> <<>>]
Header(tags, rest) == [present |-> TRUE, tags |-> tags, rest |-> rest]

\* hmac.new(key.encode("utf-8"), body, hashlib.sha256).hexdigest()
hexdigest(key, body) == <<"hmac", key, body>>

\* a text with a character outside ASCII
NonAscii == <<"\\u00e9">>
IsAscii(text) == text # NonAscii

Returns(v) == [raised |-> "", value |-> v]
Raises(e) == [raised |-> e, value |-> FALSE]

\* the texts are compared by their length alone
compare_lengths(a, b) == Returns(Len(a) = Len(b))

\* hmac.compare_digest(a, b): TypeError for a str that is not ASCII
compare_digest(a, b) ==
    IF ~IsAscii(a) \/ ~IsAscii(b) THEN Raises("TypeError") ELSE Returns(a = b)

\* a request that carries the header, whatever its value, is accepted
verify_header_present(header, body, secret) == header.present

\* lines 54-57: signature_header[7:] when the header starts with "sha256="
StripTag(h) == IF h.tags > 0 THEN [h EXCEPT !.tags = @ - 1] ELSE h

\* the text of a header value that no longer starts with a tag dropped
TextOf(h) == IF h.tags > 0 THEN <<"sha256=">> \o h.rest ELSE h.rest

\* verify_whatsapp_signature(request, settings)
verify_whatsapp_signature(header, body, secret) ==
    IF ~header.present \/ (header.tags = 0 /\ header.rest = <<>>) THEN FALSE
    ELSE LET signature == TextOf(StripTag(header))
             expected_signature == hexdigest(secret, body)
             r == compare_digest(expected_signature, signature)
         IN  IF r.raised \in {"KeyError", "TypeError", "ValueError"} THEN FALSE ELSE r.value

(***************************************************************************)
(* Webhook: the JSON values of a request body.  A raw body is named by a   *)
(* string; json.loads is given by its value on the raw bodies of the model.*)
(***************************************************************************)
JNull == [t |-> "null"]
JStr(x) == [t |-> "str", v |-> x]
JInt(n) == [t |-> "int", v |-> n]
JList(items) == [t |-> "list", v |-> items]
JDict(f) == [t |-> "dict", v |-> f]
JsonError == [t |-> "ValueError"]

\* bool(x) of a JSON value
JTruthy(j) ==
    CASE j.t = "null" -> FALSE
      [] j.t = "str" -> j.v # ""
      [] j.t = "int" -> j.v # 0
      [] j.t = "list" -> j.v # <<>>
      [] j.t = "dict" -> DOMAIN j.v # {}

\* d.get(key, default) of a dict d
JGet(d, key, default) == IF key \in DOMAIN d.v THEN d.v[key] ELSE default

\* the envelope of a WhatsApp event around its value
Envelope(value) ==
    JDict([entry |-> JList(<<JDict([changes |-> JList(<<JDict([value |-> value])>>)])>>)])
Contacts(name) == JList(<<JDict([profile |-> JDict([name |-> JStr(name)])])>>)
MessageFrom(contacts, msg) == Envelope(JDict([messages |-> JList(<<msg>>), contacts |-> contacts]))
MessageEvent(msg) == MessageFrom(Contacts("Ann"), msg)

RawBodies ==
    {"not json", "[]", "{}", "entry is a string", "entry of strings", "value is a string",
     "status event", "text message", "audio message", "image message", "message is a string",
     "text message, other name", "text without body", "text without from", "audio without id",
     "contact is a string"}

\* json.loads(body_bytes)
json_loads(raw) ==
    CASE raw = "not json" -> JsonError
      [] raw = "[]" -> JList(<<>>)
      [] raw = "{}" -> JDict(<<>>)
      [] raw = "entry is a string" -> JDict([entry |-> JStr("x")])
      [] raw = "entry of strings" -> JDict([entry |-> JList(<<JStr("x")>>)])
      [] raw = "value is a string" -> Envelope(JStr("x"))
      [] raw = "status event" -> Envelope(JDict([statuses |-> JList(<<JStr("sent")>>)]))
      [] raw = "text message" ->
            MessageEvent(JDict([from |-> JStr("+15550001"), type |-> JStr("text"),
                                text |-> JDict([body |-> JStr("hi")])]))
      [] raw = "audio message" ->
            MessageEvent(JDict([from |-> JStr("+15550001"), type |-> JStr("audio"),
                                audio |-> JDict([id |-> JStr("media-1")])]))
      [] raw = "image message" ->
            MessageEvent(JDict([from |-> JStr("+15550002"), type |-> JStr("image")]))
      [] raw = "message is a string" -> MessageEvent(JStr("x"))
      [] raw = "text message, other name" ->
            MessageFrom(Contacts("Annie"),
                        JDict([from |-> JStr("+15550001"), type |-> JStr("text"),
                               text |-> JDict([body |-> JStr("hi")])]))
      [] raw = "text without body" ->
            MessageEvent(JDict([from |-> JStr("+15550002"), type |-> JStr("text"),
                                text |-> JDict([body |-> JStr("")])]))
      [] raw = "text without from" ->
            MessageEvent(JDict([type |-> JStr("text"), text |-> JDict([body |-> JStr("hi")])]))
      [] raw = "audio without id" ->
            MessageEvent(JDict([from |-> JStr("+15550001"), type |-> JStr("audio")]))
      [] raw = "contact is a string" ->
            MessageFrom(JList(<<JStr("x")>>),
                        JDict([from |-> JStr("+15550001"), type |-> JStr("text"),
                               text |-> JDict([body |-> JStr("hi")])]))

\* api_server/utils.py, is_valid_whatsapp_message: "True", "False", or the
\* AttributeError of a .get on a value that is no dict, which the except
\* clause (KeyError, IndexError, TypeError) lets through
is_valid_whatsapp_message(body) ==
    IF body.t # "dict" THEN "AttributeError"
    ELSE LET entry == JGet(body, "entry", JNull) IN
    IF ~(JTruthy(entry) /\ entry.t = "list") THEN "False"
    ELSE IF entry.v[1].t # "dict" THEN "AttributeError"
    ELSE LET changes == JGet(entry.v[1], "changes", JNull) IN
    IF ~(JTruthy(changes) /\ changes.t = "list") THEN "False"
    ELSE IF changes.v[1].t # "dict" THEN "AttributeError"
    ELSE LET value == JGet(changes.v[1], "value", JNull) IN
    IF ~JTruthy(value) THEN "False"
    ELSE IF value.t # "dict" THEN "AttributeError"
    ELSE LET messages == JGet(value, "messages", JNull) IN
    IF JTruthy(messages) /\ messages.t = "list" THEN "True" ELSE "False"

DefaultData == [username |-> "Unknown User", phone_number |-> "", message |-> "",
           type |-> "text", audio_id |-> None]

\* x[0] of a truthy x after len(x): an item of a list, a character of a
\* str, KeyError for a dict (its keys are strs), TypeError for len() of a number
Item0(x) ==
    CASE x.t = "list" -> [raised |-> "", v |-> x.v[1]]
      [] x.t = "str" -> [raised |-> "", v |-> JStr("x")]
      [] x.t = "dict" -> [raised |-> "KeyError", v |-> JNull]
      [] OTHER -> [raised |-> "TypeError", v |-> JNull]

\* lines 75-83: KeyError, IndexError and TypeError are answered by the
\* default record; any other exception leaves the function
ParseEnds(raised, data) ==
    IF raised \in {"KeyError", "IndexError", "TypeError"}
    THEN [raised |-> "", data |-> DefaultData]
    ELSE [raised |-> raised, data |-> data]

\* x.get(key, {}).get(name, default): AttributeError when x[key] is no dict
JGet2(x, key, name, default) ==
    LET inner == JGet(x, key, JDict(<<>>)) IN
    IF inner.t # "dict" THEN [raised |-> "AttributeError", v |-> JNull]
    ELSE [raised |-> "", v |-> JGet(inner, name, default)]

\* lines 46-74: the fields of the first message
MessageFields(value, message_data) ==
    IF message_data.t # "dict" THEN ParseEnds("AttributeError", DefaultData)
    ELSE LET type == JGet(message_data, "type", JStr("text")).v
             text == JGet2(message_data, "text", "body", JStr(""))
             audio == JGet2(message_data, "audio", "id", JStr(""))
             contacts == JGet(value, "contacts", JList(<<>>))
             c0 == IF JTruthy(contacts) THEN Item0(contacts) ELSE [raised |-> "", v |-> JDict(<<>>)]
             name == IF c0.raised # "" \/ c0.v.t # "dict"
                     THEN [raised |-> "AttributeError", v |-> JNull]
                     ELSE JGet2(c0.v, "profile", "name", JStr("Unknown User"))
         IN  IF type = "text" /\ text.raised # "" THEN ParseEnds(text.raised, DefaultData)
             ELSE IF type = "audio" /\ audio.raised # "" THEN ParseEnds(audio.raised, DefaultData)
             ELSE IF JTruthy(contacts) /\ c0.raised # "" THEN ParseEnds(c0.raised, DefaultData)
             ELSE IF JTruthy(contacts) /\ name.raised # "" THEN ParseEnds(name.raised, DefaultData)
             ELSE ParseEnds("", [username |-> IF JTruthy(contacts) THEN name.v.v ELSE "Unknown User",
                                 phone_number |-> JGet(message_data, "from", JStr("")).v,
                                 message |-> IF type = "text" THEN text.v.v ELSE "",
                                 type |-> type,
                                 audio_id |-> IF type = "audio" THEN audio.v.v ELSE None])

\* lines 26-43 for one level: node.get(key, default), and the first item of
\* what it gives; "default" stands for the return of the default record
Level(node, key, default) ==
    IF node.t # "dict" THEN [raised |-> "AttributeError", v |-> JNull]
    ELSE LET x == JGet(node, key, default) IN
         IF ~JTruthy(x) THEN [raised |-> "default", v |-> JNull] ELSE Item0(x)

\* api_server/whatsapp.py, parse_whatsapp_message: the data, the default
\* record, or the AttributeError of a .get on a value that is no dict
parse_whatsapp_message(body) ==
    LET entry0 == Level(body, "entry", JList(<<>>)) IN
    IF entry0.raised = "default" THEN ParseEnds("", DefaultData)
    ELSE IF entry0.raised # "" THEN ParseEnds(entry0.raised, DefaultData)
    ELSE LET changes0 == Level(entry0.v, "changes", JList(<<>>)) IN
    IF changes0.raised = "default" THEN ParseEnds("", DefaultData)
    ELSE IF changes0.raised # "" THEN ParseEnds(changes0.raised, DefaultData)
    ELSE IF changes0.v.t # "dict" THEN ParseEnds("AttributeError", DefaultData)
    ELSE LET value == JGet(changes0.v, "value", JDict(<<>>)) IN
    IF ~JTruthy(value) THEN ParseEnds("", DefaultData)
    ELSE LET message0 == Level(value, "messages", JList(<<>>)) IN
    IF message0.raised = "default" THEN ParseEnds("", DefaultData)
    ELSE IF message0.raised # "" THEN ParseEnds(message0.raised, DefaultData)
    ELSE MessageFields(value, message0.v)

(***************************************************************************)
(* Webhook: services/tasky_chat.py, handle_webhook (main.py holds the same *)
(* handler without the audio branch).  One POST is followed through the    *)
(* handler step by step; `last` holds the request, what was done for it    *)
(* (log), the messages handed to send_whatsapp_message (sent) and the      *)
(* response.                                                               *)
(***************************************************************************)
AppSecret == "app secret"                       \* settings.WHATSAPP_APP_SECRET

\* config.py, class Settings: the fields of _settings
Settings ==
    [PORT |-> 8080, GOOGLE_CLOUD_PROJECT_ID |-> None, GOOGLE_API_KEY |-> "google key",
     GOOGLE_GENAI_USE_VERTEXAI |-> FALSE, SUPABASE_URL |-> "https://db",
     SUPABASE_KEY |-> "db key", SESSIONS_DATABASE_URL |-> "postgresql://sessions",
     VERIFY_TOKEN |-> "verify token", WHATSAPP_PHONE_NUMBER_ID |-> "phone id",
     WHATSAPP_ACCESS_TOKEN |-> "access token", WHATSAPP_APP_SECRET |-> AppSecret]

\* a text is a sequence of pieces; " " is white space
Pieces(str) == IF str = "" THEN <<>> ELSE <<str>>
NoText == <<>>                                   \* None and "" alike: `not text` holds

\* what the speech service would answer: an exception, or a text
Speeches == {[raised |-> TRUE, text |-> <<>>], [raised |-> FALSE, text |-> <<>>],
             [raised |-> FALSE, text |-> <<" ", " ">>],
             [raised |-> FALSE, text |-> <<" ", "buy", " ", "milk", " ">>],
             [raised |-> FALSE, text |-> <<"call", " ", "Bob">>]}

\* whatsapp.py 85-127, download_audio_from_whatsapp: the bytes, or None
download_audio_from_whatsapp(audio_id, net) == IF net = "ok" THEN <<"bytes">> ELSE NoText

\* whatsapp.py 129-167, transcribe_audio_with_groq: every exception is
\* answered None, the AttributeError of settings.GROQ_API_KEY among them
transcribe_audio_with_groq(audio_data, settings, speech) ==
    IF "GROQ_API_KEY" \notin DOMAIN settings THEN NoText
    ELSE IF speech.raised THEN NoText
    ELSE IF speech.text = <<>> THEN NoText
    ELSE strip(speech.text)

YouSaid(transcription) == <<"You said: \n">> \o transcription
Apology == <<"Sorry, I couldn't process your audio message. Please try sending a text message instead.">>

\* whatsapp.py 169-206, process_whatsapp_audio_message: the transcription
\* and the messages it sends itself
process_whatsapp_audio_message(audio_id, settings, net, speech) ==
    LET audio_data == download_audio_from_whatsapp(audio_id, net) IN
    IF audio_data = NoText THEN [transcription |-> NoText, sends |-> <<>>]
    ELSE LET transcription == transcribe_audio_with_groq(audio_data, settings, speech) IN
         IF transcription = NoText THEN [transcription |-> NoText, sends |-> <<>>]
         ELSE [transcription |-> transcription,
               sends |-> <<[to |-> "", message |-> YouSaid(transcription)]>>]
NoResponse == [code |-> 0, status |-> "", detail |-> ""]
Response(code, status, detail) == [code |-> code, status |-> status, detail |-> detail]

\* get_user_id_by_phone with no other request in between: the row of the
\* phone number if there is one, else a new row; or HTTP 500 when a store call raises
ResolveAlone(us, next, phone_number, username, io) ==
    LET rows == {u \in us : u.phone_number = phone_number} IN
    IF io = "raise" THEN [users |-> us, nextUid |-> next, ret |-> Raised]
    ELSE IF rows # {}
    THEN [users |-> us, nextUid |-> next, ret |-> Returned(Min({u.id : u \in rows}), "select")]
    ELSE [users |-> us \cup {[id |-> next, phone_number |-> phone_number, username |-> username]},
          nextUid |-> next + 1,
          ret |-> Returned(next, "insert")]

\* the signature headers a POST of the raw body may carry
HeadersFor(raw) ==
    {NoHeader, Header(0, <<>>), Header(1, <<>>), Header(1, NonAscii), Header(1, <<"junk">>),
     Header(0, hexdigest(AppSecret, raw)), Header(2, hexdigest(AppSecret, raw)),
     Header(1, hexdigest("a guess", raw))}
    \cup {Header(1, hexdigest(AppSecret, b)) : b \in RawBodies}

InWebhook(at) == last.op = "webhook" /\ last.pc = at
Done(r, response) == [r EXCEPT !.pc = "done", !.response = response]
Logged(r, what, out) == [r EXCEPT !.log = Append(@, [do |-> what, out |-> out])]
\* a call of send_whatsapp_message and the number of steps logged before it
Sent(r, to, message, ok) ==
    [r EXCEPT !.sent = Append(@, [to |-> to, message |-> message, ok |-> ok, at |-> Len(r.log)])]

\* a user who wrote before: the users table has a row of theirs
FirstContact ==
    /\ Idle
    /\ users = {}
    /\ LET r == ResolveAlone(users, nextUid, "+15550001", "Ann", "ok") IN
         /\ users' = r.users
         /\ nextUid' = r.nextUid
    /\ UNCHANGED <<pc, arg, ret, taskVars>>

\* line 37: a POST arrives and its body is read
Post ==
    /\ Idle
    /\ \E raw \in RawBodies : \E header \in HeadersFor(raw) :
         last' = [op |-> "webhook", pc |-> "verify", header |-> header, raw |-> raw,
                  body |-> JNull, data |-> DefaultData, user_id |-> 0, message_text |-> <<>>,
                  agent_response |-> "", log |-> <<>>, sent |-> <<>>, response |-> NoResponse,
                  before |-> users, net |-> "", speech |-> [raised |-> FALSE, text |-> <<>>],
                  asked |-> <<>>]
    /\ UNCHANGED <<tasks, nextId, clock, made, userVars>>

\* lines 39-52: the signature is verified; False, or any exception, is answered 403
VerifySignature ==
    /\ InWebhook("verify")
    /\ \E raises \in BOOLEAN :
         LET verified == verify_whatsapp_signature(last.header, last.raw, AppSecret) IN
         last' = IF raises
                 THEN Done(Logged(last, "verify", "raised"),
                           Response(403, "error", "Signature verification error"))
                 ELSE IF ~verified
                 THEN Done(Logged(last, "verify", "False"),
                           Response(403, "error", "Invalid signature"))
                 ELSE [Logged(last, "verify", "True") EXCEPT !.pc = "json"]
    /\ UNCHANGED <<tasks, nextId, clock, made, userVars>>

\* lines 54-59: the body is parsed; a body that is no JSON is answered 400
LoadJson ==
    /\ InWebhook("json")
    /\ LET body == json_loads(last.raw) IN
         last' = IF body = JsonError
                 THEN Done(Logged(last, "json", "ValueError"),
                           Response(400, "error", "Invalid JSON payload"))
                 ELSE [Logged(last, "json", "ok") EXCEPT !.pc = "valid", !.body = body]
    /\ UNCHANGED <<tasks, nextId, clock, made, userVars>>

\* lines 61-64: an event that is no message is answered 200 "ignored"; the
\* call is outside every try, so an exception of it is answered 500 by the server
CheckMessage ==
    /\ InWebhook("valid")
    /\ LET valid == is_valid_whatsapp_message(last.body) IN
         last' = IF valid = "AttributeError"
                 THEN Done(Logged(last, "valid", valid),
                           Response(500, "", "Internal Server Error"))
                 ELSE IF valid = "False"
                 THEN Done(Logged(last, "valid", valid),
                           Response(200, "ignored", "Non-message event"))
                 ELSE [Logged(last, "valid", valid) EXCEPT !.pc = "parse"]
    /\ UNCHANGED <<tasks, nextId, clock, made, userVars>>

ProcessingError == Response(200, "error", "Message processing error")

\* lines 69-75 (and 129-132 for an exception)
ParseMessage ==
    /\ InWebhook("parse")
    /\ LET r == parse_whatsapp_message(last.body) IN
         last' = IF r.raised # ""
                 THEN Done(Logged(last, "parse", r.raised), ProcessingError)
                 ELSE [Logged(last, "parse", "ok") EXCEPT !.pc = "resolve", !.data = r.data,
                                                          !.message_text = Pieces(r.data.message)]
    /\ UNCHANGED <<tasks, nextId, clock, made, userVars>>

\* every message that is no voice message is handed to the agent
AfterResolveNoTextCheck(r, audio) ==
    IF audio THEN [r EXCEPT !.pc = "audio"] ELSE [r EXCEPT !.pc = "agent"]

\* lines 82, 107-111: a voice message goes to the audio branch; any other
\* message without text is answered 200 "ignored"
AfterResolve(r, audio) ==
    IF audio THEN [r EXCEPT !.pc = "audio"]
    ELSE IF r.message_text = <<>>
    THEN Done(r, Response(200, "ignored", "No processable content"))
    ELSE [r EXCEPT !.pc = "agent"]

\* lines 77-82, 107-111: the user is resolved; then the audio branch, or
\* 200 "ignored" for a message without text, or the agent
ResolveUser ==
    /\ InWebhook("resolve")
    /\ \E io \in {"ok", "raise"} :
         LET r == ResolveAlone(users, nextUid, last.data.phone_number, last.data.username, io)
             audio == last.data.type = "audio" /\ Truthy(last.data.audio_id)
         IN  /\ users' = r.users
             /\ nextUid' = r.nextUid
             /\ last' = IF r.ret = Raised
                        THEN Done(Logged(last, "resolve", "raised"), ProcessingError)
                        ELSE AfterResolve([Logged(last, "resolve", r.ret.via)
                                           EXCEPT !.user_id = r.ret.id], audio)
    /\ UNCHANGED <<pc, arg, ret, tasks, nextId, clock, made>>

\* the apology is sent and the handler goes on to the agent
AudioBranchGoesOn(r, p, oks) ==
    LET inner == IF p.sends = <<>> THEN r ELSE Sent(r, p.sends[1].to, p.sends[1].message, oks[1]) IN
    IF p.transcription = NoText
    THEN [Sent(inner, r.data.phone_number, Apology, oks[2]) EXCEPT !.pc = "agent"]
    ELSE [Sent(inner, r.data.phone_number, YouSaid(p.transcription), oks[2])
          EXCEPT !.pc = "agent", !.message_text = p.transcription]

\* lines 86-105: with a transcription the text of the message is the
\* transcription and it is sent back to the sender; without one the apology
\* is sent and the request is answered
AudioBranch(r, p, oks) ==
    LET inner == IF p.sends = <<>> THEN r ELSE Sent(r, p.sends[1].to, p.sends[1].message, oks[1]) IN
    IF p.transcription = NoText
    THEN Done(Sent(inner, r.data.phone_number, Apology, oks[2]),
              Response(200, "error", "Audio transcription failed"))
    ELSE [Sent(inner, r.data.phone_number, YouSaid(p.transcription), oks[2])
          EXCEPT !.pc = "agent", !.message_text = p.transcription]

\* lines 82-105 and whatsapp.py 169-206: the audio is downloaded and
\* transcribed; what the media API and the speech service would answer, and
\* whether each send succeeds, are inputs
Transcribe ==
    /\ InWebhook("audio")
    /\ \E net \in {"ok", "fail"}, speech \in Speeches, oks \in [1..2 -> BOOLEAN] :
         LET p == process_whatsapp_audio_message(last.data.audio_id, Settings, net, speech)
             r == [last EXCEPT !.net = net, !.speech = speech]
         IN  last' = AudioBranch(Logged(r, "transcribe", IF p.transcription = NoText THEN "None" ELSE "ok"),
                                 p, oks)
    /\ UNCHANGED <<tasks, nextId, clock, made, userVars>>

\* lines 113-118: call_tasky returns the agent's answer or raises
CallAgent ==
    /\ InWebhook("agent")
    /\ \E out \in {"reply", "raise"} :
         last' = IF out = "raise"
                 THEN Done([Logged(last, "agent", "raised") EXCEPT !.asked = last.message_text],
                           ProcessingError)
                 ELSE [Logged(last, "agent", "ok") EXCEPT !.pc = "send", !.asked = last.message_text,
                                                          !.agent_response = "the agent's answer"]
    /\ UNCHANGED <<tasks, nextId, clock, made, userVars>>

\* lines 120-127: the result of send_whatsapp_message is dropped
AfterSend(r, ok) == Done(r, Response(200, "success", "Message processed"))

\* lines 120-127 and whatsapp.py 208-247: the answer is sent;
\* send_whatsapp_message returns False when it fails and never raises
SendReply ==
    /\ InWebhook("send")
    /\ \E ok \in BOOLEAN :
         last' = AfterSend(Sent(Logged(last, "send", IF ok THEN "True" ELSE "False"),
                                last.data.phone_number, <<last.agent_response>>, ok), ok)
    /\ UNCHANGED <<tasks, nextId, clock, made, userVars>>

NextWebhook ==
    \/ FirstContact
    \/ Post
    \/ VerifySignature
    \/ LoadJson
    \/ CheckMessage
    \/ ParseMessage
    \/ ResolveUser
    \/ Transcribe
    \/ CallAgent
    \/ SendReply

SpecWebhook == InitUsers /\ [][NextWebhook]_vars

(***************************************************************************)
(* Daily summary job: services/daily_summary.py, send_daily_summary, with  *)
(* api_server/database.py, get_users_tasks_by_date.  The users table and   *)
(* the tasks table are filled first; then one POST /daily-summary is       *)
(* followed.  Whether the store answers, whether generate_daily_summary    *)
(* answers for each user and whether each send succeeds are inputs.        *)
(***************************************************************************)
PhoneOf(n) == CASE n = 1 -> "+15550001" [] n = 2 -> "+15550002" [] OTHER -> "+15550003"
\* str(user_id): the user id the agent hands to the task tools
UuidStr(n) == CASE n = 1 -> "u1" [] n = 2 -> "u2" [] OTHER -> "u3"

\* a user wrote for the first time: get_user_id_by_phone inserted the row
Enrol ==
    /\ Idle
    /\ Cardinality(users) < MaxUsers
    /\ \E name \in {"Ann", "Bob"} :
         LET r == ResolveAlone(users, nextUid, PhoneOf(nextUid), name, "ok") IN
         /\ users' = r.users
         /\ nextUid' = r.nextUid
    /\ UNCHANGED <<pc, arg, ret, taskVars>>

SummaryDrafts ==
    {PlainDraft, [title |-> <<"a">>, working_dt |-> "2025-07-15 09:30:00", due_dt |-> "2025-07-16"],
     [title |-> <<"b">>, working_dt |-> "2025-07-16"]}

\* a task of a user is stored
SeedFor ==
    /\ Idle
    /\ Cardinality(tasks) < MaxTasks
    /\ \E u \in users, d \in SummaryDrafts :
         LET r == create_tasks(tasks, nextId, clock, UuidStr(u.id), <<d>>, <<"ok">>, TRUE) IN
         /\ tasks' = r.tasks
         /\ nextId' = r.nextId
         /\ made' = made @@ Made(r.calls, UuidStr(u.id), <<d>>)
    /\ clock' = clock + 1
    /\ UNCHANGED <<last, userVars>>

\* the day of a stored timestamp
DayOf(iso) ==
    CASE iso \in {"2025-07-15T00:00:00", "2025-07-15T09:30:00"} -> "2025-07-15"
      [] iso = "2025-07-16T00:00:00" -> "2025-07-16"
      [] OTHER -> None

\* database.py 107-110: the tasks whose working_dt lies between
\* <date>T00:00:00 and <date>T23:59:59
TasksOfDay(ts, date) == {t \in ts : t.working_dt # None /\ DayOf(t.working_dt) = date}

RECURSIVE ById(_)
ById(rows) ==
    IF rows = {} THEN <<>>
    ELSE LET first == CHOOSE u \in rows : \A v \in rows : u.id <= v.id
         IN  <<first>> \o ById(rows \ {first})

\* database.py 81-140, get_users_tasks_by_date: every user row (id,
\* username, phone_number) with the list of its tasks of the day, or HTTP 500
get_users_tasks_by_date(us, ts, date, io) ==
    IF io = "raise" THEN [raised |-> "HTTPException", rows |-> <<>>]
    ELSE LET day == TasksOfDay(ts, date)
             rows == ById(us)
         IN  [raised |-> "",
              rows |-> [i \in 1..Len(rows) |->
                          [id |-> rows[i].id, username |-> rows[i].username,
                           phone_number |-> rows[i].phone_number,
                           tasks |-> {t \in day : t.user_id = UuidStr(rows[i].id)}]]]

\* d[key] of a dict: KeyError when the key is missing
Subscript(d, key) ==
    IF key \in DOMAIN d THEN [raised |-> "", v |-> d[key]] ELSE [raised |-> "KeyError", v |-> None]

NoTasksMessage(name) == <<"Hello ", name, ", You got no tasks today. ENJOY!!!">>
SummaryMessage(date, name, task_list) == <<"summary", date, name, task_list>>

\* daily_summary.py 39-51: the message for one user, or the exception
ComposeFor(user, date, gen) ==
    LET phone_number == Subscript(user, "phone_number")
        contact_name == Subscript(user, "contact_name")
        user_tasks == Subscript(user, "tasks")
    IN  IF phone_number.raised # "" THEN [raised |-> phone_number.raised, to |-> "", message |-> <<>>]
        ELSE IF contact_name.raised # ""
        THEN [raised |-> contact_name.raised, to |-> "", message |-> <<>>]
        ELSE IF user_tasks.raised # "" THEN [raised |-> user_tasks.raised, to |-> "", message |-> <<>>]
        ELSE IF user_tasks.v = {}
        THEN [raised |-> "", to |-> phone_number.v, message |-> NoTasksMessage(contact_name.v)]
        ELSE IF gen = "raise" THEN [raised |-> "RuntimeError", to |-> "", message |-> <<>>]
        ELSE [raised |-> "", to |-> phone_number.v,
              message |-> SummaryMessage(date, contact_name.v,
                                         {[title |-> t.title, due_dt |-> t.due_dt] : t \in user_tasks.v})]

\* a user whose message cannot be composed is left out and the loop goes on
SummaryStepSkipsUser(acc, user, date, gen) ==
    LET c == ComposeFor(user, date, gen) IN
    IF acc.raised # "" \/ c.raised # "" THEN acc
    ELSE [acc EXCEPT !.send_tasks = Append(@, [to |-> c.to, message |-> c.message])]

\* daily_summary.py 38-64: one turn of the loop; send_whatsapp_message(...)
\* is only created here, it runs when it is awaited
SummaryStep(acc, user, date, gen) ==
    LET c == ComposeFor(user, date, gen) IN
    IF acc.raised # "" THEN acc
    ELSE IF c.raised # "" THEN [acc EXCEPT !.raised = c.raised]
    ELSE [acc EXCEPT !.send_tasks = Append(@, [to |-> c.to, message |-> c.message])]

RECURSIVE SummaryLoop(_, _, _, _, _)
SummaryLoop(acc, rows, date, gens, i) ==
    IF i > Len(rows) THEN acc
    ELSE SummaryLoop(SummaryStep(acc, rows[i], date, gens[i]), rows, date, gens, i + 1)

SummaryRequests == {"not json", "{}", "2025-07-15", "2025-07-16"}

\* daily_summary.py 18-75, send_daily_summary
send_daily_summary(us, ts, req, io, gens, oks) ==
    IF req = "not json" THEN [response |-> Response(400, "", "Invalid JSON"), sent |-> <<>>, rows |-> <<>>]
    ELSE IF req = "{}"
    THEN [response |-> Response(400, "", "Missing 'date' in request body"), sent |-> <<>>, rows |-> <<>>]
    ELSE LET users_tasks == get_users_tasks_by_date(us, ts, req, io)
             failed == [response |-> Response(500, "error", "Failed to send daily summaries"),
                        sent |-> <<>>, rows |-> users_tasks.rows]
         IN  IF users_tasks.raised # "" THEN failed
             ELSE LET loop == SummaryLoop([raised |-> "", send_tasks |-> <<>>],
                                          users_tasks.rows, req, gens, 1)
                  IN  IF loop.raised # "" THEN failed
                      ELSE [response |-> Response(200, "success", "Daily summaries sent"),
                            sent |-> [k \in 1..Len(loop.send_tasks) |->
                                        [to |-> loop.send_tasks[k].to,
                                         message |-> loop.send_tasks[k].message, ok |-> oks[k]]],
                            rows |-> users_tasks.rows]

\* one POST /daily-summary
RunSummary ==
    /\ Idle
    /\ \E req \in SummaryRequests, io \in {"ok", "raise"},
          gens \in [1..MaxUsers -> {"ok", "raise"}], oks \in [1..MaxUsers -> BOOLEAN] :
         LET r == send_daily_summary(users, tasks, req, io, gens, oks) IN
         last' = [op |-> "summary", req |-> req, io |-> io, gens |-> gens, oks |-> oks,
                  rows |-> r.rows, sent |-> r.sent, response |-> r.response]
    /\ UNCHANGED <<tasks, nextId, clock, made, userVars>>

NextSummary == Enrol \/ SeedFor \/ RunSummary

SpecSummary == InitUsers /\ [][NextSummary]_vars

(***************************************************************************)
(* Claims about create_tasks (SpecCreate).                                 *)
(***************************************************************************)
Created == last.op = "create"
Reached == last.conn /\ last.user # ""                  \* the call got as far as the store
Healthy == Reached /\ \A i \in 1..Len(last.io) : last.io[i] = "ok"
Inserted == tasks \ last.before                         \* the rows the observed call added
InsertedFor(i) ==                                       \* the row inserted for the i-th draft, if any
    {t \in Inserted : \E k \in 1..Len(last.calls) :
        last.calls[k].call = "insert" /\ last.calls[k].item = i - 1 /\ last.calls[k].id = t.id}
ErrorsOf(res) == IF Has(res, "errors") THEN res.errors ELSE <<>>
InErrors(i) == \E k \in 1..Len(ErrorsOf(last.res)) : ErrorsOf(last.res)[k].task_index = i - 1

BadTitle(t) == (\A i \in 1..Len(t) : t[i] = " ") \/ Len(strip(t)) > 255
BadTitleDraft(d) == Has(d, "title") /\ BadTitle(d.title)
BadDateDraft(d) ==
    \/ Has(d, "due_dt") /\ d.due_dt \in BadDateStrings
    \/ Has(d, "working_dt") /\ d.working_dt \in BadDateStrings
GoodDraft(d) == TaskInputError(d) = "" /\ ~BadDateDraft(d)

\* C5: no task whose title is empty, whitespace-only or longer than 255
\* characters after trimming is ever inserted: every row of the store has a
\* good title and comes from a draft whose title was good.
C5_NoBadTitleInserted ==
    /\ \A t \in tasks : ~BadTitle(t.title)
    /\ \A id \in DOMAIN made : ~BadTitleDraft(made[id].draft) /\ Has(made[id].draft, "title")

\* A call whose list carried a 256-character title next to a good draft
\* returned and inserted nothing.
C5_Witness ==
    /\ Created /\ Healthy
    /\ \E i, j \in 1..Len(last.req) :
         /\ Has(last.req[i], "title") /\ Len(strip(last.req[i].title)) = 256
         /\ GoodDraft(last.req[j])
    /\ Inserted = {}

\* C6 as claimed: in a batch that mixes bad-title drafts with good drafts,
\* each bad-title draft is an entry of errors, is not counted, and the good
\* drafts are created.
C6_PerItemTitleErrors ==
    (Created /\ Healthy /\ (\E i \in 1..Len(last.req) : BadTitleDraft(last.req[i]))
             /\ (\E j \in 1..Len(last.req) : GoodDraft(last.req[j])))
    => /\ Has(last.res, "task_count")
       /\ \A i \in 1..Len(last.req) :
            /\ BadTitleDraft(last.req[i]) => InErrors(i) /\ InsertedFor(i) = {}
            /\ GoodDraft(last.req[i]) => InsertedFor(i) # {}

\* C6 amended: a batch that carries a bad-title draft is rejected as a whole
\* with a top-level validation error naming the first rejected draft: the
\* result has neither task_count nor errors, and no draft is inserted.
C6_BadTitleRejectsBatch ==
    (Created /\ Reached /\ \E i \in 1..Len(last.req) : BadTitleDraft(last.req[i]))
    => /\ last.res.status = "error"
       /\ last.res.message = "Validation error for task"
       /\ TaskInputError(last.req[last.res.task + 1]) # ""
       /\ \A k \in 1..last.res.task : TaskInputError(last.req[k]) = ""
       /\ ~Has(last.res, "task_count") /\ ~Has(last.res, "errors")
       /\ Inserted = {} /\ last.calls = <<>>

\* A good draft followed by a draft with an empty title: nothing was inserted.
C6_Witness ==
    /\ Created /\ Healthy
    /\ Len(last.req) = 2
    /\ GoodDraft(last.req[1]) /\ BadTitleDraft(last.req[2])
    /\ last.res.status = "error" /\ last.res.task = 1
    /\ tasks = last.before

C8_CountAndStatus ==
    Created
    => /\ Has(last.res, "task_count") => last.res.task_count = Cardinality(Inserted)
       /\ last.res.status = "error" <=> Cardinality(Inserted) = 0
       /\ (Inserted # {} /\ \E i \in 1..Len(last.req) : InsertedFor(i) = {})
            => /\ last.res.status = "success"
               /\ Has(last.res, "errors") /\ last.res.errors # <<>>

\* One draft of two was inserted: success, task_count 1, one entry in errors.
C8_Witness ==
    /\ Created
    /\ Len(last.req) = 2
    /\ Cardinality(Inserted) = 1
    /\ last.res.status = "success" /\ last.res.task_count = 1
    /\ Len(ErrorsOf(last.res)) = 1

(***************************************************************************)
(* Claims about get_tasks (SpecRead).                                      *)
(***************************************************************************)
Read == last.op = "get"
ReadOk == Read /\ last.res.status = "success"
ReturnedIds == {last.res.tasks[k].task_id : k \in 1..Len(last.res.tasks)}
UnknownKeys(filters) == DOMAIN filters \ {"working_dt", "due_dt", "status", "priority", "tags"}
KnownPart(filters) == [k \in DOMAIN filters \ UnknownKeys(filters) |-> filters[k]]

\* C2: every task get_tasks returns is a row owned by the caller.
C2_OnlyOwnTasks ==
    ReadOk => \A id \in ReturnedIds : \E t \in tasks : t.id = id /\ t.user_id = last.user

\* The store holds rows of both users that pass the filters; the read
\* returned the caller's and left out the other user's.
C2_Witness ==
    /\ ReadOk
    /\ DOMAIN last.req = {"due_dt"}
    /\ ReturnedIds # {}
    /\ \E t \in tasks : t.user_id # last.user /\ t.due_dt = "2025-07-15T00:00:00"
    /\ \E t \in tasks : t.id \in ReturnedIds /\ t.due_dt = "2025-07-15T00:00:00"

\* the point in time a well-formed date string names: <<day, minutes>>
Instant(x) ==
    CASE x = "2025-07-15" -> <<15, 0>>
      [] x = "2025-07-16" -> <<16, 0>>
      [] x = "2025-07-15 00:00:00" -> <<15, 0>>
      [] x = "2025-07-15 09:30:00" -> <<15, 570>>

\* the tasks the caller of the observed call created with a date-only due_dt
OwnDatedTasks ==
    {id \in DOMAIN made : /\ made[id].by = last.user
                          /\ Has(made[id].draft, "due_dt")
                          /\ made[id].draft.due_dt \in DateOnlyStrings}

\* C9: a task created with the date-only due_dt D is returned by its owner's
\* read that filters due_dt = D alone, and by no read of the owner's that
\* filters due_dt on another date.
C9_DueDateRoundTrip ==
    (ReadOk /\ Has(last.req, "due_dt"))
    => \A id \in OwnDatedTasks :
         /\ (last.req.due_dt = made[id].draft.due_dt /\ DOMAIN KnownPart(last.req) = {"due_dt"})
               => id \in ReturnedIds
         /\ Instant(last.req.due_dt) # Instant(made[id].draft.due_dt) => id \notin ReturnedIds

\* The caller has a task due 2025-07-15 and one due 2025-07-16; the read of
\* due_dt = "2025-07-15" returned the first and not the second.
C9_Witness ==
    /\ ReadOk
    /\ DOMAIN last.req = {"due_dt"} /\ last.req.due_dt = "2025-07-15"
    /\ \E i, j \in OwnDatedTasks :
         /\ made[i].draft.due_dt = "2025-07-15" /\ i \in ReturnedIds
         /\ made[j].draft.due_dt = "2025-07-16" /\ j \notin ReturnedIds

\* C10 as claimed: a read whose filter map carries an unrecognized key is
\* rejected with an error and no query reaches the store.
C10_UnknownKeyRejected ==
    (Read /\ UnknownKeys(last.req) # {})
    => last.res.status = "error" /\ last.calls = <<>>

\* C10 amended: an unrecognized key is dropped by the validator, not
\* rejected: no predicate on it reaches the store, the result is that of the
\* same read without the key, and the read succeeds when the rest is in order.
C10_UnknownKeyDropped ==
    (Read /\ UnknownKeys(last.req) # {})
    => /\ \A c \in 1..Len(last.calls) : \A k \in 1..Len(last.calls[c].preds) :
            LET p == last.calls[c].preds[k] IN
            /\ p.col \in {"user_id", "working_dt", "due_dt", "status", "priority", "tags"}
            /\ p.col = "user_id" => p.val = last.user
       /\ last.res = get_tasks(last.before, last.user, KnownPart(last.req), last.io, last.conn).res
       /\ (Reached /\ last.io = "ok" /\ DOMAIN KnownPart(last.req) = {})
            => (last.res.status = "success" /\ Len(last.calls) = 1)

\* A read by u1 with the filter {"user_id": "u2"}: it succeeded, queried the
\* store and returned u1's tasks, although u2 has tasks.
C10_Witness ==
    /\ ReadOk
    /\ last.user = "u1" /\ DOMAIN last.req = {"user_id"} /\ last.req.user_id = "u2"
    /\ Len(last.calls) = 1
    /\ ReturnedIds # {}
    /\ \E t \in tasks : t.user_id = "u2"

(***************************************************************************)
(* Claims about update_tasks and delete_tasks (SpecMutate).                *)
(***************************************************************************)
Update == last.op = "update"
Delete == last.op = "delete"
NotAborted == Has(last.res, "results")
FailedList == IF Update THEN last.res.results.failed_updates ELSE last.res.results.failed_deletes
SucceededIds ==
    IF Update
    THEN {last.res.results.successful_updates[k].task_id :
             k \in 1..Len(last.res.results.successful_updates)}
    ELSE SeqToSet(last.res.results.successful_deletes)
ReasonsOf(id) == {FailedList[k].reason : k \in {j \in 1..Len(FailedList) : FailedList[j].task_id = id}}
NamedId(i) == IF Update THEN last.req[i].task_id ELSE last.req[i]
WellFormed(i) == (Update => Has(last.req[i], "task_id")) /\ NamedId(i) \notin {EmptyId, JunkId}
IoOf(id) == {last.io[k] : k \in {j \in 1..Len(last.req) : NamedId(j) = id}}
OwnedBefore(id) == \E t \in last.before : t.id = id /\ t.user_id = last.user
Foreign(id) == \E t \in last.before : t.id = id /\ t.user_id # last.user
Absent(id) == \A t \in last.before : t.id # id
RowsWithId(store, id) == {t \in store : t.id = id}
WritesFor(i) == {c \in 1..Len(last.calls) : last.calls[c].item = i - 1 /\ last.calls[c].call # "select"}
NotFoundReason ==
    IF Update THEN "Task with ID not found or not owned by user"
    ELSE "Task with ID not found or unauthorized"

\* what C3 asks of entry i of the observed update_tasks call
RefusedAsNotFound(i) ==
    /\ NotAborted
    /\ ReasonsOf(NamedId(i)) = {NotFoundReason}
    /\ NamedId(i) \notin SucceededIds
    /\ WritesFor(i) = {}
    /\ RowsWithId(tasks, NamedId(i)) = RowsWithId(last.before, NamedId(i))

\* C3 as claimed: in every update_tasks call, with the store answering every
\* call, an entry whose well-formed task_id names no row of the caller's is
\* listed in failed_updates as not found, not in successful_updates, and no
\* row is changed for it.
C3_NotOwnedIdRefused ==
    (Update /\ Reached /\ \A i \in 1..Len(last.req) : last.io[i] = "ok")
    => \A i \in 1..Len(last.req) :
         (WellFormed(i) /\ ~OwnedBefore(NamedId(i))) => RefusedAsNotFound(i)

\* C3 amended: the same for every update_tasks call that is not aborted as a
\* whole (an entry without task_id or with a malformed one aborts the call
\* before any lookup); when the lookup itself raises, the reason reports the
\* database error instead.
C3_NotOwnedIdRefusedUnlessAborted ==
    (Update /\ NotAborted)
    => \A i \in 1..Len(last.req) :
         ~OwnedBefore(NamedId(i))
         => /\ ReasonsOf(NamedId(i)) \subseteq {NotFoundReason, "Database error checking task existence"}
            /\ ReasonsOf(NamedId(i)) # {}
            /\ (\A j \in 1..Len(last.req) :
                   (NamedId(j) = NamedId(i) /\ last.io[j] # "check_raises")
                   => NotFoundReason \in ReasonsOf(NamedId(i)))
            /\ NamedId(i) \notin SucceededIds
            /\ WritesFor(i) = {}
            /\ RowsWithId(tasks, NamedId(i)) = RowsWithId(last.before, NamedId(i))

\* An update_tasks call of two entries: the caller's own task was updated,
\* the other user's task was refused as not found and is as it was.
C3_Witness ==
    /\ Update /\ NotAborted
    /\ Len(last.req) = 2
    /\ OwnedBefore(NamedId(1)) /\ NamedId(1) \in SucceededIds
    /\ Foreign(NamedId(2))
    /\ Has(last.req[2], "title")
    /\ ReasonsOf(NamedId(2)) = {NotFoundReason}
    /\ RowsWithId(tasks, NamedId(2)) = RowsWithId(last.before, NamedId(2))
    /\ RowsWithId(tasks, NamedId(1)) # RowsWithId(last.before, NamedId(1))

\* the observed call made again on another store
Again(store) ==
    IF Update
    THEN update_tasks(store, last.now, last.user, last.req, last.io, last.conn)
    ELSE delete_tasks(store, last.user, last.req, last.io, last.conn)

\* C4: the result of an update_tasks or delete_tasks call does not depend on
\* the rows of other users: it is the result the same call has when such a
\* row does not exist, the row is left as it was, and an id of another
\* user's task gets the reasons an id of no task gets when the store
\* answers the lookups of both alike.
C4_OwnershipNotRevealed ==
    (Update \/ Delete)
    => /\ \A t \in last.before :
            t.user_id # last.user => (Again(last.before \ {t}).res = last.res /\ t \in tasks)
       /\ Again({t \in last.before : t.user_id = last.user}).res = last.res
       /\ NotAborted
            => \A i, j \in 1..Len(last.req) :
                 (Foreign(NamedId(i)) /\ Absent(NamedId(j)) /\ IoOf(NamedId(i)) = IoOf(NamedId(j)))
                 => /\ ReasonsOf(NamedId(i)) = ReasonsOf(NamedId(j))
                    /\ NamedId(i) \notin SucceededIds
                    /\ NamedId(j) \notin SucceededIds

\* An update_tasks call naming another user's task and a task that does not
\* exist: both are refused with the one reason; delete_tasks of the same two
\* ids on that store refuses both with its one reason.
C4_Witness ==
    /\ Update /\ NotAborted
    /\ Len(last.req) = 2
    /\ Foreign(NamedId(1)) /\ Absent(NamedId(2))
    /\ Has(last.req[1], "title") /\ Has(last.req[2], "title")
    /\ ReasonsOf(NamedId(1)) = {NotFoundReason}
    /\ ReasonsOf(NamedId(2)) = {NotFoundReason}
    /\ LET d == delete_tasks(last.before, last.user, <<NamedId(1), NamedId(2)>>,
                             <<"ok", "ok">>, last.conn).res
       IN  /\ d.results.successful_deletes = <<>>
           /\ d.results.failed_deletes =
                 <<Failed(NamedId(1), "Task with ID not found or unauthorized"),
                   Failed(NamedId(2), "Task with ID not found or unauthorized")>>

\* an entry that supplies a value the update must refuse
WellFormedDates == DateOnlyStrings \cup DateTimeStrings
HasInvalidField(e) ==
    \/ Has(e, "status") /\ e.status \notin {"pending", "in_progress", "completed", "archived"}
    \/ Has(e, "priority") /\ e.priority \notin {1, 2, 3}
    \/ Has(e, "due_dt") /\ e.due_dt \notin WellFormedDates
    \/ Has(e, "working_dt") /\ e.working_dt \notin WellFormedDates
SuppliesField(e) == DOMAIN e \cap SeqToSet(UpdateFields) # {}
AllAnswered == \A i \in 1..Len(last.req) : last.io[i] = "ok"

\* C11 as claimed: in an update_tasks call that reaches the loop, with the
\* store answering every call, an entry for a task of the caller's that
\* supplies an invalid status, priority or date is listed in failed_updates,
\* nothing of it is written, and the valid entries for other tasks of the
\* caller's are applied.
C11_InvalidFieldFailsTask ==
    (Update /\ NotAborted /\ AllAnswered)
    => \A i \in 1..Len(last.req) :
         OwnedBefore(NamedId(i))
         => /\ HasInvalidField(last.req[i])
               => /\ ReasonsOf(NamedId(i)) # {}
                  /\ WritesFor(i) = {}
                  /\ (\A j \in 1..Len(last.req) : NamedId(j) = NamedId(i) => j = i)
                        => /\ NamedId(i) \notin SucceededIds
                           /\ RowsWithId(tasks, NamedId(i)) = RowsWithId(last.before, NamedId(i))
            /\ (~HasInvalidField(last.req[i]) /\ SuppliesField(last.req[i]))
               => NamedId(i) \in SucceededIds

\* The call update_tasks([{task_id, status: "bogus", title: "b"}]) on a task
\* of the caller's: the task is listed in failed_updates for its status and
\* in successful_updates, and its title was written.
C11_Witness ==
    /\ Update /\ NotAborted /\ AllAnswered
    /\ Len(last.req) = 1
    /\ OwnedBefore(NamedId(1))
    /\ HasInvalidField(last.req[1])
    /\ ReasonsOf(NamedId(1)) = {"Invalid status"}
    /\ NamedId(1) \in SucceededIds
    /\ \E t \in tasks : t.id = NamedId(1) /\ t.title = <<"b">> /\ t.status = "pending"
    /\ \E t \in last.before : t.id = NamedId(1) /\ t.title = <<"a">>

\* how often an id is listed in the two lists of an update_tasks result
TimesFailed(id) == Cardinality({k \in 1..Len(FailedList) : FailedList[k].task_id = id})
TimesSucceeded(id) ==
    Cardinality({k \in 1..Len(last.res.results.successful_updates) :
                    last.res.results.successful_updates[k].task_id = id})
DistinctIds == \A i, j \in 1..Len(last.req) : NamedId(i) = NamedId(j) => i = j

\* C27 as claimed: in an update_tasks call that is not aborted (its entries
\* name different tasks) every entry has one outcome: its task_id is listed
\* once, in successful_updates or in failed_updates, never in both, and the
\* row of a task listed in failed_updates is as it was.
C27_OneOutcomePerEntry ==
    (Update /\ NotAborted /\ DistinctIds)
    => \A i \in 1..Len(last.req) :
         /\ TimesFailed(NamedId(i)) + TimesSucceeded(NamedId(i)) = 1
         /\ TimesFailed(NamedId(i)) > 0
              => RowsWithId(tasks, NamedId(i)) = RowsWithId(last.before, NamedId(i))

\* update_tasks([{task_id, status: "bogus", title: "b"}]) on a task of the
\* caller's: the id is in both lists and the row was written.
C27_Witness ==
    /\ Update /\ NotAborted /\ AllAnswered
    /\ Len(last.req) = 1
    /\ OwnedBefore(NamedId(1))
    /\ TimesFailed(NamedId(1)) = 1 /\ TimesSucceeded(NamedId(1)) = 1
    /\ RowsWithId(tasks, NamedId(1)) # RowsWithId(last.before, NamedId(1))

\* C12: a delete_tasks call with an id that is no UUID in its list returns a
\* top-level error before any store access: no store call is made and no row
\* is deleted, whatever ids precede the malformed one.
C12_MalformedIdAbortsDelete ==
    (Delete /\ \E i \in 1..Len(last.req) : last.req[i] \in {EmptyId, JunkId})
    => /\ last.res.status = "error"
       /\ ~NotAborted
       /\ last.res.message = "Invalid UUID format for task_id"
       /\ last.calls = <<>>
       /\ tasks = last.before

\* delete_tasks([id of a task of the caller's, "junk"]): the call is refused
\* and the caller's task is still in the store.
C12_Witness ==
    /\ Delete
    /\ Len(last.req) = 2
    /\ OwnedBefore(last.req[1])
    /\ last.req[2] = JunkId
    /\ last.conn
    /\ last.res.status = "error"
    /\ \E t \in tasks : t.id = last.req[1]

Malformed(i) == Has(last.req[i], "task_id") /\ last.req[i].task_id \in {EmptyId, JunkId}
Rejected(i) == ~Has(last.req[i], "task_id") \/ Malformed(i)

\* C13 as claimed: in an update_tasks call that reaches the store, an entry
\* with a malformed task_id is recorded in failed_updates and the other
\* entries are still applied.
C13_MalformedIdPerItem ==
    (Update /\ Healthy)
    => \A i \in 1..Len(last.req) :
         Malformed(i)
         => /\ NotAborted
            /\ ReasonsOf(last.req[i].task_id) # {}
            /\ \A j \in 1..Len(last.req) :
                 (/\ ~Rejected(j)
                  /\ OwnedBefore(NamedId(j))
                  /\ SuppliesField(last.req[j])
                  /\ ~HasInvalidField(last.req[j]))
                 => NamedId(j) \in SucceededIds

\* C13 amended: an update_tasks call that reaches the store and has an entry
\* with a malformed (or no) task_id is aborted as delete_tasks is: it returns
\* a top-level error naming the first such entry, has no results lists, makes
\* no store call and changes no row, the entries before it included.
C13_MalformedIdAbortsUpdate ==
    (Update /\ Reached /\ \E i \in 1..Len(last.req) : Rejected(i))
    => /\ last.res.status = "error"
       /\ ~NotAborted
       /\ Rejected(last.res.task + 1)
       /\ \A j \in 1..last.res.task : ~Rejected(j)
       /\ last.res.message = (IF Malformed(last.res.task + 1)
                              THEN "Invalid UUID format for task_id in task"
                              ELSE "Validation error for task")
       /\ last.calls = <<>>
       /\ tasks = last.before

\* update_tasks([{task_id of a task of the caller's, title: "b"},
\* {task_id: "junk", title: "b"}]): refused as a whole, the first task keeps
\* its title.
C13_Witness ==
    /\ Update /\ Healthy
    /\ Len(last.req) = 2
    /\ Has(last.req[1], "task_id") /\ Has(last.req[1], "title")
    /\ OwnedBefore(NamedId(1))
    /\ Malformed(2)
    /\ last.res.status = "error" /\ last.res.task = 1
    /\ \E t \in tasks : t.id = NamedId(1) /\ t.title = <<"a">>

(***************************************************************************)
(* Claims about the three writing tools together (SpecBatch).              *)
(***************************************************************************)
Writing == Created \/ Update \/ Delete
\* the call got past validation, into the loop over its items
InLoop == IF Created THEN Has(last.res, "task_count") ELSE NotAborted
\* the store calls of item i that raised
RaisedCalls(i) ==
    {c \in 1..Len(last.calls) :
        /\ last.calls[c].item = i - 1
        /\ \/ last.calls[c].call = "insert" /\ last.calls[c].io = "raise"
           \/ last.calls[c].call = "select" /\ last.calls[c].io = "check_raises"
           \/ last.calls[c].call \in {"update", "delete"} /\ last.calls[c].io = "raises"}
CallsFor(i) == {c \in 1..Len(last.calls) : last.calls[c].item = i - 1}
DatabaseErrors ==
    {"Database error", "Database error checking task existence",
     "Database update error", "Database delete error"}
\* item i is reported with a database error in the per-item list of the result
ListedWithDatabaseError(i) ==
    IF Created
    THEN \E k \in 1..Len(ErrorsOf(last.res)) :
            /\ ErrorsOf(last.res)[k].task_index = i - 1
            /\ ErrorsOf(last.res)[k].error \in DatabaseErrors
    ELSE ReasonsOf(NamedId(i)) \cap DatabaseErrors # {}
\* item j was worked on: a store call was made for it, or (create) its dates were refused
Attempted(j) == CallsFor(j) # {} \/ (Created /\ InErrors(j))

\* C14 as claimed: when a store call of one item raises, the result is a
\* top-level error without per-item lists and no later item is attempted.
C14_StoreErrorAbortsBatch ==
    (Writing /\ InLoop)
    => \A i \in 1..Len(last.req) :
         RaisedCalls(i) # {}
         => /\ last.res.status = "error"
            /\ ~Has(last.res, "results") /\ ~Has(last.res, "errors")
            /\ \A j \in (i + 1)..Len(last.req) : CallsFor(j) = {}

\* C14 amended: a store call that raises for one item is recorded for that
\* item alone, in errors / failed_updates / failed_deletes with a database
\* error; the call is made once and not repeated, and every later item of
\* the batch is still attempted.
C14_StoreErrorPerItem ==
    (Writing /\ InLoop)
    => \A i \in 1..Len(last.req) :
         RaisedCalls(i) # {}
         => /\ ListedWithDatabaseError(i)
            /\ Cardinality(RaisedCalls(i)) = 1
            /\ \A c \in CallsFor(i) : c <= CHOOSE r \in RaisedCalls(i) : TRUE
            /\ \A j \in (i + 1)..Len(last.req) : Attempted(j)
            /\ Update => last.res.status = "success"

\* create_tasks of two drafts: the insert of the first raised, the second
\* was inserted; the result is a success with one error entry.  On the
\* store it left, update_tasks and delete_tasks of two items, the first
\* store call raising, likewise fail the first and apply the second.
C14_Witness ==
    /\ Created /\ InLoop
    /\ Len(last.req) = 2
    /\ RaisedCalls(1) # {}
    /\ ListedWithDatabaseError(1)
    /\ InsertedFor(2) # {}
    /\ last.res.status = "success" /\ last.res.task_count = 1
    /\ LET id == (CHOOSE t \in InsertedFor(2) : TRUE).id
           e == WithId(id, [title |-> <<"b">>])
           u == update_tasks(tasks, clock, last.user, <<e, e>>, <<"raises", "ok">>, TRUE).res
           d == delete_tasks(tasks, last.user, <<id, id>>, <<"check_raises", "ok">>, TRUE).res
       IN  /\ u.results.failed_updates = <<Failed(id, "Database update error")>>
           /\ Len(u.results.successful_updates) = 1
           /\ d.results.failed_deletes = <<Failed(id, "Database error checking task existence")>>
           /\ d.results.successful_deletes = <<id>>

\* C15 as claimed: whatever create_tasks and update_tasks calls were made,
\* every row of the store has one of the four statuses and a priority of
\* 1, 2 or 3.
C15_StatusAndPriorityValid ==
    \A t \in tasks :
        /\ t.status \in {"pending", "in_progress", "completed", "archived"}
        /\ t.priority \in {1, 2, 3}

\* create_tasks([{title: " a ", status: ""}]) returned success and the row
\* it inserted has the empty status.
C15_Witness ==
    /\ Created /\ Healthy
    /\ Len(last.req) = 1
    /\ Has(last.req[1], "status") /\ last.req[1].status = ""
    /\ last.res.status = "success" /\ last.res.task_count = 1
    /\ \E t \in InsertedFor(1) : t.status = "" /\ t.user_id = last.user

(***************************************************************************)
(* Claims about sequences of update_tasks calls (SpecUpdates).             *)
(***************************************************************************)
\* the value the store holds for a valid value of an entry
Stored(key, v) ==
    IF key \in {"due_dt", "working_dt"}
    THEN CASE v = "2025-07-15" -> "2025-07-15T00:00:00"
           [] v = "2025-07-16" -> "2025-07-16T00:00:00"
           [] v = "2025-07-15 00:00:00" -> "2025-07-15T00:00:00"
           [] v = "2025-07-15 09:30:00" -> "2025-07-15T09:30:00"
    ELSE v
ValidValue(e, key) ==
    /\ key = "status" => e[key] \in {"pending", "in_progress", "completed", "archived"}
    /\ key = "priority" => e[key] \in {1, 2, 3}
    /\ key \in {"due_dt", "working_dt"} => e[key] \in WellFormedDates

\* C16: after any sequence of update_tasks calls every task is owned by the
\* user who created it, and a task listed in successful_updates has
\* updated_at set to the time of the call, later than any stamp it had,
\* and holds the valid values the entry supplied.
C16_OwnerKeptAndStamped ==
    /\ \A t \in tasks : t.id \in DOMAIN made /\ t.user_id = made[t.id].by
    /\ (Update /\ NotAborted)
       => \A i \in 1..Len(last.req) :
            NamedId(i) \in SucceededIds
            => \E t \in tasks, b \in last.before :
                 /\ t.id = NamedId(i) /\ b.id = NamedId(i)
                 /\ t.updated_at = last.now
                 /\ t.updated_at > b.updated_at /\ t.updated_at > b.created_at
                 /\ \A key \in DOMAIN last.req[i] \cap SeqToSet(UpdateFields) :
                      ValidValue(last.req[i], key) => t[key] = Stored(key, last.req[i][key])

\* The second update_tasks call on a task: its owner sent
\* {task_id, user_id: "u2", title: "c"}; the task is listed as updated, has
\* the new title and a newer stamp than the first update left, and is still
\* its creator's.
C16_Witness ==
    /\ Update /\ NotAborted
    /\ UpdateCalls >= 2
    /\ last.user = "u1"
    /\ Has(last.req[1], "user_id") /\ last.req[1].user_id = "u2"
    /\ NamedId(1) \in SucceededIds
    /\ \E t \in tasks, b \in last.before :
         /\ t.id = NamedId(1) /\ b.id = NamedId(1)
         /\ b.updated_at # NoTime /\ t.updated_at > b.updated_at
         /\ t.title = <<"c">> /\ b.title = <<"b">>
         /\ t.user_id = "u1" /\ made[t.id].by = "u1"

(***************************************************************************)
(* Claims about the webhook (SpecWebhook).                                 *)
(***************************************************************************)
Webhook == last.op = "webhook"
Answered == Webhook /\ last.pc = "done"
\* what was logged for a step of the handler
Outs(what) == {last.log[k].out : k \in {j \in 1..Len(last.log) : last.log[j].do = what}}
Did(what) == Outs(what) # {}
\* the header is the digest of the body under the secret, with at most one tag before it
SignedBy(header, raw, key) ==
    header.present /\ header.tags <= 1 /\ header.rest = <<"hmac", key, raw>>

\* C17: verify_whatsapp_signature returns True only for a header that, less
\* one leading "sha256=", is the hex HMAC-SHA256 of the raw body under the
\* configured secret; without the header, or when the comparison raises, it
\* returns False; and a header it accepts for one body it refuses for every
\* other body.
C17_SignatureVerified ==
    (Webhook /\ Outs("verify") \cap {"True", "False"} # {})
    => /\ "True" \in Outs("verify") => SignedBy(last.header, last.raw, AppSecret)
       /\ ~last.header.present => Outs("verify") = {"False"}
       /\ last.header.rest = NonAscii => Outs("verify") = {"False"}
       /\ "True" \in Outs("verify")
            => \A b \in RawBodies \ {last.raw} :
                 ~verify_whatsapp_signature(last.header, b, AppSecret)

\* The POST of a text message with the header "sha256=<digest of the body
\* under the secret>" was verified and went on to the JSON parser.
C17_Witness ==
    /\ Webhook
    /\ last.raw = "text message"
    /\ last.header = Header(1, <<"hmac", "app secret", "text message">>)
    /\ Outs("verify") = {"True"}
    /\ Did("json")

\* C18: a POST whose signature is not that of its body, or whose
\* verification raises, is answered 403 and nothing else is done for it:
\* the body is not parsed, no user is looked up or created, the agent is
\* not called and no message is sent.
C18_BadSignatureStopsAt403 ==
    (Webhook /\ Did("verify")
       /\ (~SignedBy(last.header, last.raw, AppSecret) \/ "raised" \in Outs("verify")))
    => /\ Answered
       /\ last.response.code = 403 /\ last.response.status = "error"
       /\ Len(last.log) = 1
       /\ last.body = JNull
       /\ users = last.before
       /\ last.sent = <<>>

\* A text message of a sender not yet known, signed with another key: it was
\* answered 403, the users table is still empty and nothing was sent.
C18_Witness ==
    /\ Answered
    /\ last.raw = "text message"
    /\ last.header = Header(1, <<"hmac", "a guess", "text message">>)
    /\ Outs("verify") = {"False"}
    /\ last.response = Response(403, "error", "Invalid signature")
    /\ users = {} /\ last.sent = <<>> /\ Len(last.log) = 1

\* C19 as claimed: a POST is answered 200 unless its signature fails (403)
\* or its body is no JSON (400); a signed JSON body that is no message event
\* in any way is answered 200 "ignored" with nothing done.
C19_AlwaysAnswered200 ==
    Answered
    => LET verified == Outs("verify") = {"True"}
           json == json_loads(last.raw) # JsonError
       IN  /\ last.response.code \in {200, 403, 400}
           /\ last.response.code = 403 <=> ~verified
           /\ last.response.code = 400 <=> (verified /\ ~json)
           /\ (verified /\ json /\ Outs("valid") # {"True"})
                => /\ last.response = Response(200, "ignored", "Non-message event")
                   /\ users = last.before /\ last.sent = <<>>

\* The correctly signed POST of the JSON body [] was answered 500.
C19_Witness ==
    /\ Answered
    /\ last.raw = "[]"
    /\ SignedBy(last.header, last.raw, AppSecret)
    /\ Outs("verify") = {"True"} /\ Outs("json") = {"ok"}
    /\ Outs("valid") = {"AttributeError"}
    /\ last.response.code = 500

\* C20 as claimed: a message event is answered 200; with status "error"
\* when the user resolution raised, the agent raised or the answer could
\* not be sent; with status "success" only when the agent answered and the
\* answer was sent.
C20_DownstreamFailureIsError ==
    (Answered /\ Outs("valid") = {"True"})
    => /\ last.response.code = 200
       /\ ("raised" \in Outs("resolve") \cup Outs("agent") \/ "False" \in Outs("send"))
            => last.response.status = "error"
       /\ last.response.status = "success"
            => (Outs("agent") = {"ok"} /\ Outs("send") = {"True"})

\* A text message: the agent answered, send_whatsapp_message returned False
\* for the answer, and the POST was answered 200 "success".
C20_Witness ==
    /\ Answered
    /\ last.raw = "text message"
    /\ Outs("agent") = {"ok"}
    /\ Outs("send") = {"False"}
    /\ \E k \in 1..Len(last.sent) : last.sent[k].message = <<last.agent_response>> /\ ~last.sent[k].ok
    /\ last.response = Response(200, "success", "Message processed")

\* what was sent for the request, and to whom
Messages(to) == {last.sent[k].message : k \in {i \in 1..Len(last.sent) : last.sent[i].to = to}}
AllMessages == {last.sent[k].message : k \in 1..Len(last.sent)}
\* the media could not be fetched, or the speech service gave no text
NothingHeard == last.net = "fail" \/ last.speech.raised \/ strip(last.speech.text) = <<>>

\* C21: a voice message whose media is not downloaded, or for which the
\* speech service fails or gives an empty text, is answered by the apology
\* to its sender and by nothing else: the agent is not called and no answer
\* of the agent is sent.
C21_NoTranscriptApologyOnly ==
    (Webhook /\ Did("transcribe") /\ NothingHeard)
    => /\ Answered
       /\ Messages(last.data.phone_number) = {Apology}
       /\ AllMessages = {Apology}
       /\ ~Did("agent") /\ ~Did("send")
       /\ last.asked = <<>>

\* A voice message of a known sender, the media API fails: the apology went
\* to the sender and the request was answered without the agent.
C21_Witness ==
    /\ Answered
    /\ last.raw = "audio message"
    /\ last.net = "fail"
    /\ Outs("transcribe") = {"None"}
    /\ Len(last.sent) = 1 /\ last.sent[1].to = "+15550001" /\ last.sent[1].message = Apology
    /\ ~Did("agent")
    /\ last.response = Response(200, "error", "Audio transcription failed")

\* the media was fetched and the speech service gave a text that is not blank
Heard == last.net = "ok" /\ ~last.speech.raised /\ strip(last.speech.text) # <<>>
\* the place of the call of the agent among the steps of the request
AgentAt == CHOOSE i \in 1..Len(last.log) : last.log[i].do = "agent"

\* C22 as claimed: for a voice message whose media is downloaded and whose
\* speech gives a text, the trimmed text is the text of the message: it is
\* sent back to the sender after "You said:" and then the agent is called
\* with it.
C22_TranscriptEchoedThenAgent ==
    (Answered /\ Did("transcribe") /\ Heard)
    => LET transcript == strip(last.speech.text) IN
       /\ last.message_text = transcript
       /\ Did("agent") /\ last.asked = transcript
       /\ \E k \in 1..Len(last.sent) :
            /\ last.sent[k].to = last.data.phone_number
            /\ last.sent[k].message = YouSaid(transcript)
            /\ last.sent[k].at < AgentAt

\* A voice message, the media was downloaded and the speech is " buy milk ":
\* the sender got the apology and the agent was not called.
C22_Witness ==
    /\ Answered
    /\ last.raw = "audio message"
    /\ last.net = "ok"
    /\ last.speech = [raised |-> FALSE, text |-> <<" ", "buy", " ", "milk", " ">>]
    /\ Outs("transcribe") = {"None"}
    /\ AllMessages = {Apology}
    /\ ~Did("agent")
    /\ last.response = Response(200, "error", "Audio transcription failed")

\* C23 as claimed: parse_whatsapp_message does not raise; a payload that
\* lacks entry, changes, value or messages, or has a node of another type
\* than expected, gives the default record.
C23_ParseNeverRaises ==
    (Webhook /\ Did("parse"))
    => /\ Outs("parse") = {"ok"}
       /\ parse_whatsapp_message(last.body).raised = ""
       /\ \A raw \in RawBodies \ {"not json"} :
            parse_whatsapp_message(json_loads(raw)).raised = ""

\* The first message of the payload is a string: parse_whatsapp_message
\* raised AttributeError and the handler answered 200 "error".
C23_Witness ==
    /\ Answered
    /\ last.raw = "message is a string"
    /\ Outs("valid") = {"True"}
    /\ Outs("parse") = {"AttributeError"}
    /\ last.response = ProcessingError
    /\ parse_whatsapp_message(JList(<<>>)).raised = "AttributeError"
    /\ parse_whatsapp_message(JDict(<<>>)) = [raised |-> "", data |-> DefaultData]

\* the place of a step among the steps of the request
Pos(what) == CHOOSE i \in 1..Len(last.log) : last.log[i].do = what
Before(a, b) == (Did(a) /\ Did(b)) => Pos(a) < Pos(b)
Resolved == Did("resolve") /\ "raised" \notin Outs("resolve")
KnownBefore == {u \in last.before : u.phone_number = last.data.phone_number}

\* C25 as claimed: after the webhook processed a message of a phone number
\* that has a row, with another display name than the stored one, the row
\* holds the name of the message.
C25_NameLastSeenWins ==
    (Answered /\ Resolved /\ \E u \in KnownBefore : u.username # last.data.username)
    => \A u \in users : u.phone_number = last.data.phone_number
                          => u.username = last.data.username

\* Ann's phone number sent a message as "Annie"; it was answered with
\* success and the row still says "Ann".
C25_Witness ==
    /\ Answered
    /\ last.raw = "text message, other name"
    /\ last.data.username = "Annie"
    /\ Outs("resolve") = {"select"}
    /\ last.response.status = "success"
    /\ users = {[id |-> 1, phone_number |-> "+15550001", username |-> "Ann"]}

\* C26 as claimed: the steps of one delivery are taken in the order
\* signature, parsing, audio pipeline (voice message), user resolution,
\* agent, reply; for a voice message the user is resolved only after the
\* audio pipeline gave a transcript.
C26_StepsInOrder ==
    Webhook
    => /\ Before("verify", "parse") /\ Before("parse", "transcribe")
       /\ Before("transcribe", "resolve") /\ Before("resolve", "agent")
       /\ Before("agent", "send")
       /\ (Did("resolve") /\ last.data.type = "audio" /\ Truthy(last.data.audio_id))
            => (Outs("transcribe") = {"ok"} /\ Pos("transcribe") < Pos("resolve"))

\* A voice message of a sender without a row: the row was inserted, then
\* the audio pipeline gave nothing and the request was answered.
C26_Witness ==
    /\ Answered
    /\ last.raw = "audio message"
    /\ last.before = {}
    /\ users = {[id |-> 1, phone_number |-> "+15550001", username |-> "Ann"]}
    /\ Outs("resolve") = {"insert"}
    /\ Outs("transcribe") = {"None"}
    /\ Pos("resolve") < Pos("transcribe")

\* C28 as claimed: every message sent for a delivery goes to the phone
\* number parsed from it, and none goes to an empty recipient.
C28_SentToSender ==
    Webhook
    => \A k \in 1..Len(last.sent) :
         last.sent[k].to = last.data.phone_number /\ last.sent[k].to # ""

\* A text message without "from": the answer of the agent was sent to "".
C28_Witness ==
    /\ Answered
    /\ last.raw = "text without from"
    /\ last.data.phone_number = ""
    /\ Len(last.sent) = 1 /\ last.sent[1].to = "" /\ last.sent[1].message = <<last.agent_response>>
    /\ last.response.status = "success"

\* a message event that carries no text to work on
NoContent ==
    /\ Outs("parse") = {"ok"}
    /\ \/ last.data.type \notin {"text", "audio"}
       \/ last.data.type = "text" /\ last.data.message = ""

Summary == last.op = "summary"
\* the job ran for a date, the store answered it
SummaryRan == Summary /\ last.req \in {"2025-07-15", "2025-07-16"} /\ last.io = "ok"
FreeOn(u, date) == {t \in TasksOfDay(tasks, date) : t.user_id = UuidStr(u.id)} = {}
SentTo(phone) == {k \in 1..Len(last.sent) : last.sent[k].to = phone}

\* C24 as claimed: when the job runs for a date on which a user has no
\* task, that user is sent exactly "Hello <name>, You got no tasks today.
\* ENJOY!!!" with the stored name, and the job answers success.
C24_NoTasksGreeting ==
    (SummaryRan /\ \A i \in 1..MaxUsers : last.gens[i] = "ok")
    => \A u \in users :
         FreeOn(u, last.req)
         => /\ Cardinality(SentTo(u.phone_number)) = 1
            /\ \A k \in SentTo(u.phone_number) : last.sent[k].message = NoTasksMessage(u.username)
            /\ last.response = Response(200, "success", "Daily summaries sent")

\* Ann is the only user and has no task: the job ran for 2025-07-15, sent
\* nothing and answered 500.
C24_Witness ==
    /\ SummaryRan
    /\ last.req = "2025-07-15"
    /\ users = {[id |-> 1, phone_number |-> "+15550001", username |-> "Ann"]}
    /\ tasks = {}
    /\ last.sent = <<>>
    /\ last.response = Response(500, "error", "Failed to send daily summaries")

\* the users for whom no message can be composed
ComposeFails == {i \in 1..Len(last.rows) : ComposeFor(last.rows[i], last.req, last.gens[i]).raised # ""}

C1_OneUserPerPhone ==
    /\ \A ph \in Phones : Cardinality(UsersByPhone(ph)) <= 1
    /\ \A p \in Procs :
         ret[p].kind = "id" =>
            /\ Cardinality(UsersByPhone(arg[p].phone_number)) = 1
            /\ \A u \in UsersByPhone(arg[p].phone_number) : u.id = ret[p].id

\* Two calls for one unseen phone number raced past the select, one inserted
\* and the other, refused by the store, returned after its re-select.
C1_Witness ==
    \E p, q \in Procs :
        /\ p # q
        /\ arg[p].phone_number = arg[q].phone_number
        /\ pc[p] = "done" /\ pc[q] = "done"
        /\ ret[p].via = "insert" /\ ret[q].via = "reselect"
        /\ ret[q].id = ret[p].id

====
